---- MODULE Spec2Model ----
(***************************************************************************)
(* Model of the ECB exchange-rate client: the SDMX-JSON decoder            *)
(* (parseJsonResponse and its dimension resolvers) and the client facade   *)
(* (EcbClient) that validates a query, fetches, parses, decodes and shapes *)
(* the result.                                                             *)
(*                                                                         *)
(* JavaScript values are tagged records [k |-> kind, ...]; a thrown error  *)
(* is data: every function returns an outcome, Return(v) or Throw(e).      *)
(* Strings that the code takes apart (series keys, observation keys) are   *)
(* sequences of one-character strings.  Rates are fixed-point integers     *)
(* (units of 1/10000); the decoder only moves them.  FetchHttpFetcher.get  *)
(* is a step machine of its own: the fetch function, the reading of the    *)
(* body, the timeout and the caller's signal are steps of the environment. *)
(***************************************************************************)
EXTENDS Integers, Sequences, FiniteSets, TLC

VARIABLES
    data,       \* the SdmxJsonResponse handed to parseJsonResponse
    pc,         \* "idle", "ready" before the call of parseJsonResponse, "done" after it
    outcome,    \* what the call produced: Return(observations) or Throw(error)
    calls,      \* the calls of parseJsonResponse made on their own, one after the
                \* other: the document and the outcome of each
    config,     \* the EcbClient's fields: baseUrl and baseCurrency
    request,    \* the client operation called and its arguments
    resolved,   \* the resolved query of the operation
    cpc,        \* where the client operation stands
    requestUrl, \* the URL handed to the fetcher
    gets,       \* how often the fetcher's get was called
    fetched,    \* how the fetcher's get settled: Return(text) or Throw(error)
    rateOutcome,\* inside convert: how its getRate settled
    result,     \* how the client operation settled
    previous,   \* the base currency of the operation before, on the same client
    fetcher,    \* the HttpFetcher in use: a FetchHttpFetcher or one the caller supplied
    fpc,        \* where FetchHttpFetcher.get stands: "idle", "fetching", "reading", "settled"
    fetchCalls, \* how often the fetch function was called
    timer,      \* the timeout of get: "unset", "armed", "fired", "cleared"
    elapsed,    \* milliseconds since get was called
    externalSignal, \* the caller's AbortSignal, or Undefined
    signal,     \* the AbortSignal handed to the fetch function
    response,   \* the Response the fetch function resolved with
    getOutcome, \* how FetchHttpFetcher.get settled
    overlapped  \* an earlier get still under way when get was called again:
                \* <<where it stands, its timeout>>, or <<>>

decoderVars == <<data, pc, outcome, calls>>
clientVars ==
    <<config, request, resolved, cpc, requestUrl, gets, fetched, rateOutcome, result,
      previous>>
fetcherVars ==
    <<fetcher, fpc, fetchCalls, timer, elapsed, externalSignal, signal, response, getOutcome,
      overlapped>>
vars ==
    <<data, pc, outcome, calls,
      config, request, resolved, cpc, requestUrl, gets, fetched, rateOutcome, result,
      previous,
      fetcher, fpc, fetchCalls, timer, elapsed, externalSignal, signal, response, getOutcome,
      overlapped>>

----------------------------------------------------------------------------
(* Bounds of the model.                                                    *)

MaxDims == 3        \* longest series-dimension list; series keys have up to MaxDims + 1 segments
MaxObs == 2         \* most observations in one series
MaxDataSets == 2    \* most data sets in one response
MaxCurrencies == 2  \* most currencies in one query
MaxGets == 2        \* most calls of get on one FetchHttpFetcher
MaxCalls == 3       \* most calls of parseJsonResponse by one caller

----------------------------------------------------------------------------
(* JavaScript values.                                                      *)

Undefined == [k |-> "undefined"]
Null == [k |-> "null"]
NaN == [k |-> "nan"]
Num(n) == [k |-> "number", v |-> n]
Str(s) == [k |-> "string", v |-> s]
Arr(elems) == [k |-> "array", v |-> elems]
\* An object used as a map: its own enumerable properties in the order
\* Object.entries lists them, each <<key, value>>.
Obj(entries) == [k |-> "object", entries |-> entries]
\* A string the code looks into: its characters.
Chars(s) == [k |-> "string", chars |-> s]

IsNullish(x) == x.k \in {"undefined", "null"}

\* Mutant of IsFalsy: the empty string taken as truthy.
IsFalsy_EmptyStringTruthy(x) ==
    \/ x.k \in {"undefined", "null", "nan"}
    \/ x.k = "number" /\ x.v = 0

\* ToBoolean(x) = false
IsFalsy(x) ==
    \/ x.k \in {"undefined", "null", "nan"}
    \/ x.k = "number" /\ x.v = 0
    \/ x.k = "string" /\ x.v = ""

\* Mutant of At: the index taken as one-based.
At_OneBased(elems, idx) ==
    IF idx.k = "number" /\ idx.v \in 1..Len(elems)
    THEN elems[idx.v]
    ELSE Undefined

\* arr[idx] for a JavaScript array (elems is its element list) and a number
\* idx: an own element when idx is an integer inside the array, otherwise
\* (NaN, negative, past the end) undefined.
At(elems, idx) ==
    IF idx.k = "number" /\ idx.v \in 0..(Len(elems) - 1)
    THEN elems[idx.v + 1]
    ELSE Undefined

\* x?.id and x?.values
OptId(x) == IF IsNullish(x) \/ x.k # "object" THEN Undefined ELSE x.id

\* Mutant of OptValues: an empty list for values that are missing
\* (x?.values ?? []).
OptValues_OrEmpty(x) ==
    IF IsNullish(x) \/ x.k # "object" \/ IsNullish(x.values) THEN [k |-> "array", v |-> <<>>]
    ELSE x.values

OptValues(x) == IF IsNullish(x) \/ x.k # "object" THEN Undefined ELSE x.values

----------------------------------------------------------------------------
(* Outcomes and errors.                                                    *)

NoError == [name |-> "", code |-> "", message |-> <<>>]
Return(v) == [kind |-> "return", value |-> v, error |-> NoError]
Throw(e) == [kind |-> "throw", value |-> <<>>, error |-> e]

\* The message is the list of the pieces the code concatenates.
EcbParseError(message, cause) ==
    [name |-> "EcbParseError", code |-> "ECB_PARSE_ERROR", message |-> message,
     cause |-> cause]

EcbValidationError(message) ==
    [name |-> "EcbValidationError", code |-> "ECB_VALIDATION_ERROR", message |-> message]

EcbApiError(statusCode, statusText, body) ==
    [name |-> "EcbApiError", code |-> "ECB_API_ERROR",
     message |-> <<"ECB API returned ", statusCode, " ", statusText>>
                     \o (IF body = "" THEN <<>> ELSE <<": ", body>>),
     statusCode |-> statusCode, statusText |-> statusText]

EcbNetworkError(message, cause) ==
    [name |-> "EcbNetworkError", code |-> "ECB_NETWORK_ERROR", message |-> message,
     cause |-> cause]

\* The runtime's own error for a property read or method call on null or
\* undefined; it is no EcbError and has no code.
TypeError == [name |-> "TypeError", code |-> "", message |-> <<>>]

----------------------------------------------------------------------------
(* seriesKey.split(":").map(Number) and Number(obsKey).                    *)

Digits == {"0", "1", "2", "3", "4", "5", "6", "7", "8", "9"}

DigitValue(c) ==
    CASE c = "0" -> 0 [] c = "1" -> 1 [] c = "2" -> 2 [] c = "3" -> 3
      [] c = "4" -> 4 [] c = "5" -> 5 [] c = "6" -> 6 [] c = "7" -> 7
      [] c = "8" -> 8 [] c = "9" -> 9

RECURSIVE DecimalValue(_)
DecimalValue(s) ==
    IF s = <<>> THEN 0
    ELSE 10 * DecimalValue(SubSeq(s, 1, Len(s) - 1)) + DigitValue(s[Len(s)])

AllDigits(s) == \A i \in 1..Len(s) : s[i] \in Digits

\* Number(s) for a string over digits, "+", "-" and letters: the empty
\* string is 0, an optionally signed run of digits is its decimal value,
\* anything else is NaN.
ToNumber(s) ==
    IF s = <<>> THEN Num(0)
    ELSE IF AllDigits(s) THEN Num(DecimalValue(s))
    ELSE IF s[1] \in {"+", "-"} /\ Len(s) > 1 /\ AllDigits(Tail(s))
         THEN Num((IF s[1] = "-" THEN -1 ELSE 1) * DecimalValue(Tail(s)))
    ELSE NaN

\* parts.join(sep), on character lists.
RECURSIVE Join(_, _)
Join(parts, sep) ==
    IF Len(parts) = 0 THEN <<>>
    ELSE IF Len(parts) = 1 THEN parts[1]
    ELSE parts[1] \o sep \o Join(Tail(parts), sep)

\* s.split(sep): the pieces between the separators; never an empty list.
RECURSIVE Split(_, _)
Split(s, sep) ==
    IF \A i \in 1..Len(s) : s[i] # sep THEN <<s>>
    ELSE LET first == CHOOSE i \in 1..Len(s) :
                          s[i] = sep /\ \A j \in 1..(i - 1) : s[j] # sep
         IN  <<SubSeq(s, 1, first - 1)>> \o Split(SubSeq(s, first + 1, Len(s)), sep)

\* Mutant of DimIndices: missing segments default to 0.
DimIndices_Padded(seriesKey) ==
    LET parts == Split(seriesKey, ":")
    IN  [i \in 1..(MaxDims + 1) |->
            IF i <= Len(parts) THEN ToNumber(parts[i]) ELSE Num(0)]

DimIndices(seriesKey) ==
    LET parts == Split(seriesKey, ":")
    IN  [i \in 1..Len(parts) |-> ToNumber(parts[i])]

----------------------------------------------------------------------------
(* The dimension resolvers.                                                *)

\* Mutant of FindIndexFrom: the last match instead of the first.
FindIndexFrom_Last(dims, id, i) ==
    LET matches == {j \in i..Len(dims) : dims[j].id = Str(id)}
    IN  IF matches = {} THEN -1
        ELSE (CHOOSE j \in matches : \A m \in matches : m <= j) - 1

\* dims.findIndex((d) => d.id === id), scanning from element i (one-based):
\* zero-based position of the first match, -1 when there is none.
RECURSIVE FindIndexFrom(_, _, _)
FindIndexFrom(dims, id, i) ==
    IF i > Len(dims) THEN -1
    ELSE IF dims[i].id = Str(id) THEN i - 1
    ELSE FindIndexFrom(dims, id, i + 1)

FindIndex(dims, id) == FindIndexFrom(dims, id, 1)

findDimensionIndex(dims, id) ==
    IF IsNullish(dims) THEN Throw(TypeError)
    ELSE LET index == FindIndex(dims.v, id)
         IN  IF index = -1
             THEN Throw(EcbParseError(
                    <<"Missing series dimension \"", id, "\" in SDMX-JSON structure.">>,
                    Undefined))
             ELSE Return(index)

findObservationDimensionIndex(dims, id) ==
    IF IsNullish(dims) THEN Throw(TypeError)
    ELSE LET index == FindIndex(dims.v, id)
         IN  IF index = -1
             THEN Throw(EcbParseError(
                    <<"Missing observation dimension \"", id, "\" in SDMX-JSON structure.">>,
                    Undefined))
             ELSE Return(index)

----------------------------------------------------------------------------
(* parseJsonResponse.                                                      *)

\* Mutant of ObservationLoop: !rate for the test on null and undefined.
RECURSIVE ObservationLoop_FalsyRate(_, _, _, _, _, _)
ObservationLoop_FalsyRate(entries, i, timeValues, currency, baseCurrency, observations) ==
    IF i > Len(entries) THEN Return(observations)
    ELSE LET obsKey == entries[i][1]
             obsValues == entries[i][2]
             timeIdx == ToNumber(obsKey)
             date == OptId(At(timeValues, timeIdx))
         IN  IF IsNullish(obsValues) THEN Throw(TypeError)
             ELSE LET rate == IF obsValues.k = "array"
                              THEN At(obsValues.v, Num(0))
                              ELSE Undefined    \* a number has no property 0
                  IN  IF IsFalsy(date) \/ IsFalsy(rate)
                      THEN ObservationLoop_FalsyRate(entries, i + 1, timeValues, currency,
                                           baseCurrency, observations)
                      ELSE ObservationLoop_FalsyRate(entries, i + 1, timeValues, currency,
                                           baseCurrency,
                                           Append(observations,
                                                  [currency |-> currency,
                                                   baseCurrency |-> baseCurrency,
                                                   date |-> date, rate |-> rate]))

\* The loop over Object.entries(seriesData.observations), from entry i on;
\* observations is the list pushed so far.
RECURSIVE ObservationLoop(_, _, _, _, _, _)
ObservationLoop(entries, i, timeValues, currency, baseCurrency, observations) ==
    IF i > Len(entries) THEN Return(observations)
    ELSE LET obsKey == entries[i][1]
             obsValues == entries[i][2]
             timeIdx == ToNumber(obsKey)
             date == OptId(At(timeValues, timeIdx))
         IN  IF IsNullish(obsValues) THEN Throw(TypeError)
             ELSE LET rate == IF obsValues.k = "array"
                              THEN At(obsValues.v, Num(0))
                              ELSE Undefined    \* a number has no property 0
                  IN  IF IsFalsy(date) \/ rate.k = "null" \/ rate.k = "undefined"
                      THEN ObservationLoop(entries, i + 1, timeValues, currency,
                                           baseCurrency, observations)
                      ELSE ObservationLoop(entries, i + 1, timeValues, currency,
                                           baseCurrency,
                                           Append(observations,
                                                  [currency |-> currency,
                                                   baseCurrency |-> baseCurrency,
                                                   date |-> date, rate |-> rate]))

\* Mutant of SeriesLoop: a series that cannot be resolved ends the loop
\* (break for continue).
RECURSIVE SeriesLoop_Break(_, _, _, _, _, _, _, _)
SeriesLoop_Break(entries, i, currencyDimIndex, denomDimIndex, currencyValues, denomValues, timeValues, observations) ==
    IF i > Len(entries) THEN Return(observations)
    ELSE LET seriesKey == entries[i][1]
             seriesData == entries[i][2]
             dimIndices == DimIndices(seriesKey)
             currencyIdx == At(dimIndices, Num(currencyDimIndex))
             denomIdx == At(dimIndices, Num(denomDimIndex))
             currency == OptId(At(currencyValues, currencyIdx))
             baseCurrency == OptId(At(denomValues, denomIdx))
         IN  IF currencyIdx.k = "undefined" \/ denomIdx.k = "undefined"
             THEN Return(observations)
             ELSE IF IsFalsy(currency) \/ IsFalsy(baseCurrency) THEN Return(observations)
             ELSE IF IsNullish(seriesData) THEN Throw(TypeError)
             ELSE IF IsNullish(seriesData.observations) THEN Throw(TypeError)
             ELSE LET inner == ObservationLoop(seriesData.observations.entries, 1,
                                               timeValues, currency, baseCurrency,
                                               observations)
                  IN  IF inner.kind = "throw" THEN inner
                      ELSE SeriesLoop_Break(entries, i + 1, currencyDimIndex,
                                            denomDimIndex, currencyValues, denomValues,
                                            timeValues, inner.value)

\* The loop over Object.entries(series), from entry i on.
RECURSIVE SeriesLoop(_, _, _, _, _, _, _, _)
SeriesLoop(entries, i, currencyDimIndex, denomDimIndex, currencyValues, denomValues, timeValues, observations) ==
    IF i > Len(entries) THEN Return(observations)
    ELSE LET seriesKey == entries[i][1]
             seriesData == entries[i][2]
             dimIndices == DimIndices(seriesKey)
             currencyIdx == At(dimIndices, Num(currencyDimIndex))
             denomIdx == At(dimIndices, Num(denomDimIndex))
             currency == OptId(At(currencyValues, currencyIdx))
             baseCurrency == OptId(At(denomValues, denomIdx))
             skip == SeriesLoop(entries, i + 1, currencyDimIndex, denomDimIndex,
                                currencyValues, denomValues, timeValues, observations)
         IN  IF currencyIdx.k = "undefined" \/ denomIdx.k = "undefined" THEN skip
             ELSE IF IsFalsy(currency) \/ IsFalsy(baseCurrency) THEN skip
             ELSE IF IsNullish(seriesData) THEN Throw(TypeError)
             ELSE IF IsNullish(seriesData.observations) THEN Throw(TypeError)
             ELSE LET inner == ObservationLoop(seriesData.observations.entries, 1,
                                               timeValues, currency, baseCurrency,
                                               observations)
                  IN  IF inner.kind = "throw" THEN inner
                      ELSE SeriesLoop(entries, i + 1, currencyDimIndex, denomDimIndex,
                                      currencyValues, denomValues, timeValues,
                                      inner.value)

\* Mutant of DataSetLoop: a data set without series ends the loop (break
\* for continue).
RECURSIVE DataSetLoop_Break(_, _, _, _, _, _, _, _)
DataSetLoop_Break(dataSets, i, currencyDimIndex, denomDimIndex, currencyValues, denomValues, timeValues, observations) ==
    IF i > Len(dataSets) THEN Return(observations)
    ELSE LET dataSet == dataSets[i]
         IN  IF IsNullish(dataSet) THEN Throw(TypeError)
             ELSE IF IsFalsy(dataSet.series)
             THEN Return(observations)
             ELSE LET inner == SeriesLoop(dataSet.series.entries, 1, currencyDimIndex,
                                          denomDimIndex, currencyValues, denomValues,
                                          timeValues, observations)
                  IN  IF inner.kind = "throw" THEN inner
                      ELSE DataSetLoop_Break(dataSets, i + 1, currencyDimIndex, denomDimIndex,
                                       currencyValues, denomValues, timeValues,
                                       inner.value)

\* The loop over dataSets, from data set i on.
RECURSIVE DataSetLoop(_, _, _, _, _, _, _, _)
DataSetLoop(dataSets, i, currencyDimIndex, denomDimIndex, currencyValues, denomValues, timeValues, observations) ==
    IF i > Len(dataSets) THEN Return(observations)
    ELSE LET dataSet == dataSets[i]
         IN  IF IsNullish(dataSet) THEN Throw(TypeError)
             ELSE IF IsFalsy(dataSet.series)
             THEN DataSetLoop(dataSets, i + 1, currencyDimIndex, denomDimIndex,
                              currencyValues, denomValues, timeValues, observations)
             ELSE LET inner == SeriesLoop(dataSet.series.entries, 1, currencyDimIndex,
                                          denomDimIndex, currencyValues, denomValues,
                                          timeValues, observations)
                  IN  IF inner.kind = "throw" THEN inner
                      ELSE DataSetLoop(dataSets, i + 1, currencyDimIndex, denomDimIndex,
                                       currencyValues, denomValues, timeValues,
                                       inner.value)

\* !structure?.dimensions
MissingDimensions(structure) ==
    IsNullish(structure) \/ IsFalsy(structure.dimensions)

\* Mutant of NewObservations: the list is made once and kept between the
\* calls, so a call goes on from the list the call before returned.
NewObservations_Kept ==
    IF outcome.kind = "return" THEN outcome.value ELSE <<>>

\* Line 42: const observations = [], a list of the call's own.
NewObservations == <<>>

\* Lines 27-76: the part of parseJsonResponse after the two early exits.
DecodeWithStructure(dataSets, structure) ==
    LET seriesDims == structure.dimensions.series
        obsDims == structure.dimensions.observation
        currencyDimIndex == findDimensionIndex(seriesDims, "CURRENCY")
        denomDimIndex == findDimensionIndex(seriesDims, "CURRENCY_DENOM")
        timeDimIndex == findObservationDimensionIndex(obsDims, "TIME_PERIOD")
    IN  IF currencyDimIndex.kind = "throw" THEN currencyDimIndex
        ELSE IF denomDimIndex.kind = "throw" THEN denomDimIndex
        ELSE IF timeDimIndex.kind = "throw" THEN timeDimIndex
        ELSE LET currencyValues == OptValues(At(seriesDims.v, Num(currencyDimIndex.value)))
                 denomValues == OptValues(At(seriesDims.v, Num(denomDimIndex.value)))
                 timeValues == OptValues(At(obsDims.v, Num(timeDimIndex.value)))
             IN  IF IsFalsy(currencyValues) \/ IsFalsy(denomValues) \/ IsFalsy(timeValues)
                 THEN Throw(EcbParseError(<<"SDMX-JSON response missing dimension values.">>,
                                          Undefined))
                 ELSE DataSetLoop(dataSets.v, 1, currencyDimIndex.value,
                                  denomDimIndex.value, currencyValues.v, denomValues.v,
                                  timeValues.v, NewObservations)

\* Mutant of parseJsonResponse: the structure is checked before dataSets.
parseJsonResponse_StructureFirst(d) ==
    IF IsNullish(d) THEN Throw(TypeError)
    ELSE
    LET dataSets == d.dataSets
        structure == d.structure
    IN  IF MissingDimensions(structure)
        THEN Throw(EcbParseError(<<"SDMX-JSON response missing structure.dimensions.">>,
                                 Undefined))
        ELSE IF IsFalsy(dataSets) \/ (dataSets.k = "array" /\ Len(dataSets.v) = 0)
        THEN Return(<<>>)
        ELSE DecodeWithStructure(dataSets, structure)

parseJsonResponse(d) ==
    IF IsNullish(d) THEN Throw(TypeError)   \* data.dataSets of null
    ELSE
    LET dataSets == d.dataSets
        structure == d.structure
    IN  IF IsFalsy(dataSets) \/ (dataSets.k = "array" /\ Len(dataSets.v) = 0)
        THEN Return(<<>>)
        ELSE IF MissingDimensions(structure)
        THEN Throw(EcbParseError(<<"SDMX-JSON response missing structure.dimensions.">>,
                                 Undefined))
        ELSE DecodeWithStructure(dataSets, structure)

----------------------------------------------------------------------------
(* validateQuery.                                                          *)

UpperCase ==
    {"A", "B", "C", "D", "E", "F", "G", "H", "I", "J", "K", "L", "M",
     "N", "O", "P", "Q", "R", "S", "T", "U", "V", "W", "X", "Y", "Z"}

\* CURRENCY_REGEX.test(s): /^[A-Z]{3}$/
MatchesCurrency(s) ==
    Len(s.chars) = 3 /\ \A i \in 1..3 : s.chars[i] \in UpperCase

\* ISO_DATE_REGEX.test(s): /^\d{4}-\d{2}-\d{2}$/
MatchesIsoDate(s) ==
    /\ Len(s.chars) = 10
    /\ \A i \in 1..10 :
          IF i \in {5, 8} THEN s.chars[i] = "-" ELSE s.chars[i] \in Digits

\* The UTF-16 code unit of a character of a date.
CodeUnit(c) == IF c = "-" THEN 45 ELSE 48 + DigitValue(c)

\* Mutant of StringGreater: a >= b.
RECURSIVE StringGreater_OrEqual(_, _)
StringGreater_OrEqual(a, b) ==
    IF b = <<>> THEN TRUE
    ELSE IF a = <<>> THEN FALSE
    ELSE IF a[1] # b[1] THEN CodeUnit(a[1]) > CodeUnit(b[1])
    ELSE StringGreater_OrEqual(Tail(a), Tail(b))

\* a > b on strings: by the first character that differs, else by length.
RECURSIVE StringGreater(_, _)
StringGreater(a, b) ==
    IF a = <<>> THEN FALSE
    ELSE IF b = <<>> THEN TRUE
    ELSE IF a[1] # b[1] THEN CodeUnit(a[1]) > CodeUnit(b[1])
    ELSE StringGreater(Tail(a), Tail(b))

\* The first currency, from position i on, that fails the pattern; Undefined
\* when all pass.
RECURSIVE FirstInvalidCurrency(_, _)
FirstInvalidCurrency(currencies, i) ==
    IF i > Len(currencies) THEN Undefined
    ELSE IF ~MatchesCurrency(currencies[i]) THEN currencies[i]
    ELSE FirstInvalidCurrency(currencies, i + 1)

validateQuery(q) ==
    IF Len(q.currencies) = 0
    THEN Throw(EcbValidationError(<<"At least one currency must be specified.">>))
    ELSE IF FirstInvalidCurrency(q.currencies, 1) # Undefined
    THEN Throw(EcbValidationError(
            <<"Invalid currency code \"", FirstInvalidCurrency(q.currencies, 1),
              "\". Must be a 3-letter ISO 4217 code.">>))
    ELSE IF ~MatchesIsoDate(q.startDate)
    THEN Throw(EcbValidationError(
            <<"Invalid startDate \"", q.startDate, "\". Expected format: YYYY-MM-DD.">>))
    ELSE IF q.endDate # Undefined /\ ~MatchesIsoDate(q.endDate)
    THEN Throw(EcbValidationError(
            <<"Invalid endDate \"", q.endDate, "\". Expected format: YYYY-MM-DD.">>))
    ELSE IF q.endDate # Undefined /\ StringGreater(q.startDate.chars, q.endDate.chars)
    THEN Throw(EcbValidationError(
            <<"startDate \"", q.startDate, "\" must not be after endDate \"",
              q.endDate, "\".">>))
    ELSE IF q.baseCurrency # Undefined /\ ~MatchesCurrency(q.baseCurrency)
    THEN Throw(EcbValidationError(
            <<"Invalid baseCurrency \"", q.baseCurrency,
              "\". Must be a 3-letter ISO 4217 code.">>))
    ELSE Return(Undefined)

----------------------------------------------------------------------------
(* buildExchangeRateUrl.                                                   *)

DEFAULT_BASE_URL == Str("https://data-api.ecb.europa.eu/service")
DEFAULT_BASE_CURRENCY == Chars(<<"E", "U", "R">>)

\* x ?? y
Coalesce(x, y) == IF IsNullish(x) THEN y ELSE x

\* Mutant of buildExchangeRateUrl: endPeriod is set for every query.
buildExchangeRateUrl_AlwaysEndPeriod(q, baseUrl) ==
    LET frequency == Coalesce(q.frequency, Str("D"))
        currencyKey == Chars(Join([i \in 1..Len(q.currencies) |-> q.currencies[i].chars],
                                  <<"+">>))
        baseCurrency == Coalesce(q.baseCurrency, Chars(<<"E", "U", "R">>))
    IN  [seriesKey |-> <<frequency, currencyKey, baseCurrency, Str("SP00"), Str("A")>>,
         base |-> IF baseUrl = Undefined THEN DEFAULT_BASE_URL ELSE baseUrl,
         path |-> <<"data", "EXR">>,
         searchParams |->
            << <<"startPeriod", q.startDate>>,
               <<"endPeriod", Coalesce(q.endDate, q.startDate)>> >>]

\* The URL as the list of its pieces: the base, the path segments, the
\* dot-separated parts of the series key, and the query parameters in the
\* order they were set.  baseUrl is Undefined when the caller passes none
\* (the parameter's default applies).
buildExchangeRateUrl(q, baseUrl) ==
    LET frequency == Coalesce(q.frequency, Str("D"))
        currencyKey == Chars(Join([i \in 1..Len(q.currencies) |-> q.currencies[i].chars],
                                  <<"+">>))
        baseCurrency == Coalesce(q.baseCurrency, Chars(<<"E", "U", "R">>))
    IN  [seriesKey |-> <<frequency, currencyKey, baseCurrency, Str("SP00"), Str("A")>>,
         base |-> IF baseUrl = Undefined THEN DEFAULT_BASE_URL ELSE baseUrl,
         path |-> <<"data", "EXR">>,
         searchParams |->
            << <<"startPeriod", q.startDate>> >>
               \o (IF q.endDate # Undefined THEN << <<"endPeriod", q.endDate>> >>
                   ELSE <<>>)]

----------------------------------------------------------------------------
(* EcbNoDataError.                                                         *)

EcbNoDataError(currencies, startDate, endDate) ==
    LET dateRange ==
            IF endDate # Undefined /\ endDate.chars # <<>> /\ endDate # startDate
            THEN <<startDate, " to ", endDate>>
            ELSE <<startDate>>
    IN  [name |-> "EcbNoDataError", code |-> "ECB_NO_DATA",
         message |->
            <<"No exchange rate data available for ",
              Chars(Join([i \in 1..Len(currencies) |-> currencies[i].chars],
                         <<",", " ">>)),
              " on ">> \o dateRange
              \o <<". The ECB does not publish rates on weekends, holidays, or future dates.">>,
         currencies |-> currencies, startDate |-> startDate, endDate |-> endDate]

----------------------------------------------------------------------------
(* EcbClient.                                                              *)

ExchangeRateQuery(currencies, startDate, endDate, frequency, baseCurrency) ==
    [baseCurrency |-> baseCurrency, currencies |-> currencies,
     startDate |-> startDate, endDate |-> endDate, frequency |-> frequency]

\* The constructor: config.baseUrl ?? DEFAULT_BASE_URL and
\* config.baseCurrency ?? DEFAULT_BASE_CURRENCY.
EcbClient(baseCurrency) ==
    [baseCurrency |-> Coalesce(baseCurrency, DEFAULT_BASE_CURRENCY),
     baseUrl |-> DEFAULT_BASE_URL]

\* Mutant of resolveQuery: the client's base currency is put into every
\* query.
resolveQuery_ClientFirst(client, q) ==
    [q EXCEPT !.baseCurrency = client.baseCurrency]

resolveQuery(client, q) ==
    IF q.baseCurrency # Undefined THEN q
    ELSE [q EXCEPT !.baseCurrency = client.baseCurrency]

\* Mutant of NoDataCheck: an empty list is handed on.
NoDataCheck_ReturnsEmpty(observations, q) == Return(observations)

\* The end of fetchAndParse: zero observations are an EcbNoDataError.
NoDataCheck(observations, q) ==
    IF Len(observations) = 0
    THEN Throw(EcbNoDataError(q.currencies, q.startDate, q.endDate))
    ELSE Return(observations)

MapHas(entries, key) == \E i \in 1..Len(entries) : entries[i][1] = key

\* map.set(key, value) on a Map or record kept as its entry list: a new key
\* is added at the end, a known key keeps its place and gets the value.
MapSet(entries, key, value) ==
    IF MapHas(entries, key)
    THEN [i \in 1..Len(entries) |->
            IF entries[i][1] = key THEN <<key, value>> ELSE entries[i]]
    ELSE Append(entries, <<key, value>>)

MapGet(entries, key) ==
    entries[CHOOSE i \in 1..Len(entries) : entries[i][1] = key][2]

\* The loop of getSingleCurrencyRates.
RECURSIVE SingleRates(_, _, _)
SingleRates(observations, i, rates) ==
    IF i > Len(observations) THEN rates
    ELSE SingleRates(observations, i + 1,
                     MapSet(rates, observations[i].date, observations[i].rate))

\* record[key] = value on a plain object ({}) kept as its entry list, for a
\* value that is a number: the key __proto__ is the accessor of
\* Object.prototype, whose setter ignores a value that is no object, so no
\* own property is made; any other key is set as in a map.
RecordSet(entries, key, value) ==
    IF key = Str("__proto__") THEN entries
    ELSE MapSet(entries, key, value)

\* The loop of transformToMultiCurrencyResult.
RECURSIVE MultiRates(_, _, _)
MultiRates(observations, i, rates) ==
    IF i > Len(observations) THEN rates
    ELSE LET obs == observations[i]
             dateRates == IF MapHas(rates, obs.date)
                          THEN MapGet(rates, obs.date) ELSE <<>>
         IN  MultiRates(observations, i + 1,
                        MapSet(rates, obs.date, RecordSet(dateRates, obs.currency, obs.rate)))

\* Mutant of ResultBase: the query's base currency comes before the first
\* observation's.
ResultBase_QueryFirst(client, observations, q) ==
    Coalesce(Coalesce(q.baseCurrency,
                      IF Len(observations) = 0 THEN Undefined
                      ELSE observations[1].baseCurrency),
             client.baseCurrency)

\* observations[0]?.baseCurrency ?? query.baseCurrency ?? this.baseCurrency
ResultBase(client, observations, q) ==
    Coalesce(Coalesce(IF Len(observations) = 0 THEN Undefined
                      ELSE observations[1].baseCurrency,
                      q.baseCurrency),
             client.baseCurrency)

getSingleCurrencyRates(client, observations, q) ==
    [currency |-> q.currencies[1],
     base |-> ResultBase(client, observations, q),
     rates |-> SingleRates(observations, 1, <<>>)]

transformToMultiCurrencyResult(client, observations, q) ==
    [currencies |-> q.currencies,
     base |-> ResultBase(client, observations, q),
     rates |-> MultiRates(observations, 1, <<>>)]

\* What an operation resolves with, given the observations.
Shaped(client, op, observations, q) ==
    CASE op \in {"getRate", "getRateHistory", "convert"} ->
            getSingleCurrencyRates(client, observations, q)
      [] op = "getRates" -> transformToMultiCurrencyResult(client, observations, q)
      [] op = "getObservations" -> observations

\* Mutant of RoundedProduct: Math.floor for Math.round.
RoundedProduct_Floor(amount, rate) == (amount * rate) \div 10000

\* Math.round(amount * rate * 100) / 100, the amount in hundredths and the
\* rate in ten-thousandths; the result is in hundredths.
RoundedProduct(amount, rate) == (amount * rate + 5000) \div 10000

\* Mutant of convert: every failure of getRate becomes null.
convert_CatchesAll(rateResult, amount, currency) ==
    IF rateResult.kind = "throw" THEN Return(Null)
    ELSE IF Len(rateResult.value.rates) = 0 THEN Throw(TypeError)
    ELSE LET entry == rateResult.value.rates[1]
         IN  Return([currency |-> currency, date |-> entry[1], rate |-> entry[2],
                     amount |-> RoundedProduct(amount, entry[2].v)])

\* convert, from the point where its getRate has settled.
convert(rateResult, amount, currency) ==
    IF rateResult.kind = "throw"
    THEN IF rateResult.error.name = "EcbNoDataError" THEN Return(Null)
         ELSE rateResult
    ELSE IF Len(rateResult.value.rates) = 0 THEN Throw(TypeError)
    ELSE LET entry == rateResult.value.rates[1]
         IN  Return([currency |-> currency, date |-> entry[1], rate |-> entry[2],
                     amount |-> RoundedProduct(amount, entry[2].v)])

----------------------------------------------------------------------------
(* FetchHttpFetcher.                                                       *)

DefaultTimeoutMs == 30000

\* The constructor: timeoutMs = 30_000 when none is given.  The fetch
\* function is the environment.
FetchHttpFetcher(timeoutMs) ==
    [name |-> "FetchHttpFetcher",
     timeoutMs |-> IF timeoutMs = Undefined THEN DefaultTimeoutMs ELSE timeoutMs.v]

\* A fetcher the caller supplied through EcbClient.withFetcher.
CustomFetcher == [name |-> "HttpFetcher"]

AbortSignal(aborted, reason) == [k |-> "object", aborted |-> aborted, reason |-> reason]

\* The reason of controller.abort().
AbortError == [name |-> "AbortError", message |-> "This operation was aborted"]

\* error instanceof Error
IsError(error) == "name" \in DOMAIN error

Response(status, statusText, body) ==
    [k |-> "object", statusText |-> statusText, body |-> body,
     status |-> status, ok |-> (status >= 200 /\ status <= 299)]

\* Mutant of CatchBlock: an EcbApiError is wrapped like any other error.
CatchBlock_WrapsAll(error, url, timeoutMs) ==
    EcbNetworkError(<<"Network request failed for ", url, ": ",
                      IF IsError(error) THEN error.message ELSE error.v>>,
                    error)

\* The catch block of get: what it throws for the error it caught.  The last
\* piece of the message is error instanceof Error ? error.message :
\* String(error).
CatchBlock(error, url, timeoutMs) ==
    IF IsError(error) /\ error.name = "EcbApiError" THEN error
    ELSE IF IsError(error) /\ error.name = "AbortError"
    THEN EcbNetworkError(<<"Request timed out after ", timeoutMs, "ms: ", url>>, error)
    ELSE EcbNetworkError(<<"Network request failed for ", url, ": ",
                           IF IsError(error) THEN error.message ELSE error.v>>,
                         error)

----------------------------------------------------------------------------
(* The shapes of an SDMX-JSON response.                                    *)

SdmxValue(id) == [k |-> "object", id |-> id]
SdmxDimension(id, values) == [k |-> "object", id |-> Str(id), values |-> values]
SdmxStructure(series, observation) ==
    [k |-> "object",
     dimensions |-> [k |-> "object", series |-> series, observation |-> observation]]
SdmxSeries(observations) == [k |-> "object", observations |-> observations]
SdmxDataSet(series) == [k |-> "object", series |-> series]
SdmxJsonResponse(dataSets, structure) ==
    [k |-> "object", dataSets |-> dataSets, structure |-> structure]

----------------------------------------------------------------------------
(* Property order of a parsed object: Object.entries lists the keys that   *)
(* are canonical array indices first, ascending, then the other keys in    *)
(* insertion order.                                                        *)

IsArrayIndex(key) ==
    /\ Len(key) >= 1
    /\ AllDigits(key)
    /\ (Len(key) = 1 \/ key[1] # "0")

OwnKeysOrdered(entries) ==
    /\ \A i, j \in 1..Len(entries) : i # j => entries[i][1] # entries[j][1]
    /\ \A i, j \in 1..Len(entries) :
          i < j =>
            \/ ~IsArrayIndex(entries[j][1])
            \/ /\ IsArrayIndex(entries[i][1])
               /\ DecimalValue(entries[i][1]) < DecimalValue(entries[j][1])

----------------------------------------------------------------------------
(* JSON texts.  A text is the list of its tokens: the punctuation, and the *)
(* null, number and string literals as the values they denote.  White      *)
(* space is left out.                                                      *)

\* A token that is no literal: one of { } [ ] : , or "word", a run of
\* letters that is no literal of JSON.
Mark(c) == [k |-> c]

\* The property names of the SDMX shapes, in the order the fixtures write
\* them.
PropertyNames ==
    <<"id", "values", "dataSets", "structure", "dimensions", "series", "observation",
      "observations">>

\* The own properties of an object, each <<key, value>> with the key as the
\* string literal JSON.stringify writes for it.
Properties(x) ==
    IF "entries" \in DOMAIN x
    THEN [i \in 1..Len(x.entries) |-> <<Chars(x.entries[i][1]), x.entries[i][2]>>]
    ELSE LET names == SelectSeq(PropertyNames, LAMBDA f : f \in DOMAIN x)
         IN  [i \in 1..Len(names) |-> <<Str(names[i]), x[names[i]]>>]

\* JSON.stringify(x): a property whose value is undefined is left out, an
\* undefined or NaN element of an array is written as null.
RECURSIVE Stringify(_)
Stringify(x) ==
    CASE x.k \in {"null", "number", "string"} -> <<x>>
      [] x.k \in {"undefined", "nan"} -> <<Null>>
      [] x.k = "array" ->
            <<Mark("[")>>
                \o Join([i \in 1..Len(x.v) |-> Stringify(x.v[i])], <<Mark(",")>>)
                \o <<Mark("]")>>
      [] x.k = "object" ->
            LET written == SelectSeq(Properties(x), LAMBDA p : p[2].k # "undefined")
            IN  <<Mark("{")>>
                    \o Join([i \in 1..Len(written) |->
                                <<written[i][1], Mark(":")>> \o Stringify(written[i][2])],
                            <<Mark(",")>>)
                    \o <<Mark("}")>>

\* The text of a response that carries the document value.
JsonText(value) == [k |-> "string", text |-> Stringify(value)]
NotJsonText == [k |-> "string", text |-> <<Mark("word"), Mark("word")>>]

\* A property is defined on an object under construction (its entry list):
\* a key already there keeps its place and gets the value; a new key that is
\* an array index goes among the indices, ascending, before all other keys;
\* any other new key goes to the end.
DefineProperty(entries, key, value) ==
    IF MapHas(entries, key) THEN MapSet(entries, key, value)
    ELSE IF "chars" \in DOMAIN key /\ IsArrayIndex(key.chars)
    THEN LET before ==
                SelectSeq(entries,
                          LAMBDA e : /\ "chars" \in DOMAIN e[1]
                                     /\ IsArrayIndex(e[1].chars)
                                     /\ DecimalValue(e[1].chars) < DecimalValue(key.chars))
         IN  before \o << <<key, value>> >>
                    \o SubSeq(entries, Len(before) + 1, Len(entries))
    ELSE Append(entries, <<key, value>>)

\* What a parsing function gives when the tokens are no JSON.
NoParse == <<>>

\* JSON.parse, from token i on: <<value, next>> for the value that starts
\* there and the position after it, or NoParse.  ParseElements and
\* ParseMembers continue an array and an object after their first token;
\* more says that a comma was read, so that a value must follow.
RECURSIVE ParseValue(_, _)
RECURSIVE ParseElements(_, _, _, _)
RECURSIVE ParseMembers(_, _, _, _)
ParseValue(tokens, i) ==
    IF i > Len(tokens) THEN NoParse
    ELSE CASE tokens[i].k \in {"null", "number", "string"} -> <<tokens[i], i + 1>>
           [] tokens[i].k = "[" -> ParseElements(tokens, i + 1, <<>>, FALSE)
           [] tokens[i].k = "{" -> ParseMembers(tokens, i + 1, <<>>, FALSE)
           [] OTHER -> NoParse

ParseElements(tokens, i, elems, more) ==
    IF i > Len(tokens) THEN NoParse
    ELSE IF tokens[i].k = "]" /\ ~more /\ elems = <<>> THEN <<Arr(elems), i + 1>>
    ELSE LET element == ParseValue(tokens, i)
         IN  IF element = NoParse \/ element[2] > Len(tokens) THEN NoParse
             ELSE IF tokens[element[2]].k = "]"
             THEN <<Arr(Append(elems, element[1])), element[2] + 1>>
             ELSE IF tokens[element[2]].k = ","
             THEN ParseElements(tokens, element[2] + 1, Append(elems, element[1]), TRUE)
             ELSE NoParse

ParseMembers(tokens, i, entries, more) ==
    IF i > Len(tokens) THEN NoParse
    ELSE IF tokens[i].k = "}" /\ ~more /\ entries = <<>> THEN <<Obj(entries), i + 1>>
    ELSE IF tokens[i].k # "string" \/ i + 1 > Len(tokens) \/ tokens[i + 1].k # ":"
    THEN NoParse
    ELSE LET member == ParseValue(tokens, i + 2)
         IN  IF member = NoParse \/ member[2] > Len(tokens) THEN NoParse
             ELSE IF tokens[member[2]].k = "}"
             THEN <<Obj(DefineProperty(entries, tokens[i], member[1])), member[2] + 1>>
             ELSE IF tokens[member[2]].k = ","
             THEN ParseMembers(tokens, member[2] + 1,
                               DefineProperty(entries, tokens[i], member[1]), TRUE)
             ELSE NoParse

\* object[name] on a parsed object; undefined when it has no such property.
Property(object, name) ==
    IF MapHas(object.entries, Str(name)) THEN MapGet(object.entries, Str(name))
    ELSE Undefined

\* The parsed value read as the SDMX shape expected at its place ("as
\* SdmxJsonResponse"): the model keeps the objects of a document as records
\* with the properties the decoder reads, and the two mappings (series,
\* observations) as entry lists keyed by the characters of the key.  A value
\* of another kind than the place expects stays as it is.
RECURSIVE AsSdmx(_, _)
AsSdmx(shape, value) ==
    LET Each(of) == Arr([i \in 1..Len(value.v) |-> AsSdmx(of, value.v[i])])
        Mapping(of) ==
            Obj([i \in 1..Len(value.entries) |->
                    <<value.entries[i][1].chars, AsSdmx(of, value.entries[i][2])>>])
    IN  CASE shape = "SdmxJsonResponse" /\ value.k = "object" ->
                SdmxJsonResponse(AsSdmx("dataSets", Property(value, "dataSets")),
                                 AsSdmx("structure", Property(value, "structure")))
          [] shape = "dataSets" /\ value.k = "array" -> Each("SdmxDataSet")
          [] shape = "SdmxDataSet" /\ value.k = "object" ->
                SdmxDataSet(AsSdmx("seriesMapping", Property(value, "series")))
          [] shape = "seriesMapping" /\ value.k = "object" -> Mapping("SdmxSeries")
          [] shape = "SdmxSeries" /\ value.k = "object" ->
                SdmxSeries(AsSdmx("observationMapping", Property(value, "observations")))
          [] shape = "observationMapping" /\ value.k = "object" -> Mapping("tuple")
          [] shape = "structure" /\ value.k = "object" ->
                [k |-> "object",
                 dimensions |-> AsSdmx("dimensions", Property(value, "dimensions"))]
          [] shape = "dimensions" /\ value.k = "object" ->
                [k |-> "object",
                 series |-> AsSdmx("SdmxDimensions", Property(value, "series")),
                 observation |-> AsSdmx("SdmxDimensions", Property(value, "observation"))]
          [] shape = "SdmxDimensions" /\ value.k = "array" -> Each("SdmxDimension")
          [] shape = "SdmxDimension" /\ value.k = "object" ->
                [k |-> "object", id |-> Property(value, "id"),
                 values |-> AsSdmx("SdmxValues", Property(value, "values"))]
          [] shape = "SdmxValues" /\ value.k = "array" -> Each("SdmxValue")
          [] shape = "SdmxValue" /\ value.k = "object" -> SdmxValue(Property(value, "id"))
          [] OTHER -> value

\* JSON.parse(raw) as SdmxJsonResponse: the value the whole text denotes, or
\* a SyntaxError.
JsonParse(raw) ==
    LET parsed == ParseValue(raw.text, 1)
    IN  IF parsed = NoParse \/ parsed[2] # Len(raw.text) + 1
        THEN Throw([name |-> "SyntaxError"])
        ELSE Return(AsSdmx("SdmxJsonResponse", parsed[1]))

\* Mutant of parseSdmxJson: the error of JSON.parse is not caught.
parseSdmxJson_Uncaught(raw) ==
    LET parsed == JsonParse(raw)
    IN  IF parsed.kind = "return" THEN parsed
        ELSE Throw([name |-> "SyntaxError", code |-> "", message |-> <<>>])

\* Mutant of parseSdmxJson: a parsed value that is falsy is taken for a
\* failure.
parseSdmxJson_RejectsNull(raw) ==
    LET parsed == JsonParse(raw)
    IN  IF parsed.kind = "return" /\ ~IsFalsy(parsed.value) THEN parsed
        ELSE Throw(EcbParseError(<<"Failed to parse ECB JSON response.">>,
                                 [name |-> "SyntaxError"]))

parseSdmxJson(raw) ==
    LET parsed == JsonParse(raw)
    IN  IF parsed.kind = "return" THEN parsed
        ELSE Throw(EcbParseError(<<"Failed to parse ECB JSON response.">>, parsed.error))

----------------------------------------------------------------------------
(* The documents the decoder is run on.  Four families, each varying one   *)
(* part of the document over everything the JSON can hold there while the  *)
(* rest stays plain.                                                       *)

SeqsUpTo(S, n) == UNION {[1..m -> S] : m \in 0..n}

USD == SdmxValue(Str("USD"))
GBP == SdmxValue(Str("GBP"))
JPY == SdmxValue(Str("JPY"))
EUR == SdmxValue(Str("EUR"))
Jan15 == SdmxValue(Str("2025-01-15"))
NoIdValue == SdmxValue(Undefined)
EmptyIdValue == SdmxValue(Str(""))

FreqDimension == SdmxDimension("FREQ", Arr(<<SdmxValue(Str("D"))>>))
TimeDimension == SdmxDimension("TIME_PERIOD", Arr(<<Jan15, SdmxValue(Str("2025-01-16")), NoIdValue>>))

SeriesDimensionPool ==
    { FreqDimension,
      SdmxDimension("CURRENCY", Arr(<<USD, GBP>>)),
      SdmxDimension("CURRENCY", Arr(<<JPY>>)),
      SdmxDimension("CURRENCY", Undefined),
      SdmxDimension("CURRENCY_DENOM", Arr(<<EUR>>)),
      SdmxDimension("CURRENCY_DENOM", Undefined) }

SeriesDimensionLists ==
    {Undefined} \cup {Arr(q) : q \in SeqsUpTo(SeriesDimensionPool, MaxDims)}

ObservationDimensionLists ==
    { Undefined,
      Arr(<<>>),
      Arr(<<TimeDimension>>),
      Arr(<<SdmxDimension("TIME_PERIOD", Undefined)>>),
      Arr(<<SdmxDimension("OBS_STATUS", Arr(<<>>)), TimeDimension>>) }

\* The fixture's five-dimension structure cut to three dimensions, with a
\* vocabulary value that has no id and one whose id is empty.
StdStructure ==
    SdmxStructure(
        Arr(<<FreqDimension,
              SdmxDimension("CURRENCY", Arr(<<USD, GBP, NoIdValue>>)),
              SdmxDimension("CURRENCY_DENOM", Arr(<<EUR, EmptyIdValue>>))>>),
        Arr(<<TimeDimension>>))

\* The currency dimensions in the other order and nothing else.
RevStructure ==
    SdmxStructure(
        Arr(<<SdmxDimension("CURRENCY_DENOM", Arr(<<EUR>>)),
              SdmxDimension("CURRENCY", Arr(<<USD, GBP>>))>>),
        Arr(<<SdmxDimension("OBS_STATUS", Arr(<<>>)), TimeDimension>>))

NoStructures ==
    { Undefined, Null, [k |-> "object", dimensions |-> Undefined] }

PlainObservations ==
    Obj(<< <<<<"0">>, Arr(<<Num(10300), Num(0)>>)>>,
           <<<<"1">>, Arr(<<Num(10303), Num(0)>>)>> >>)

OtherObservations ==
    Obj(<< <<<<"0">>, Arr(<<Num(8442), Num(0)>>)>>,
           <<<<"1">>, Arr(<<Null, Num(0)>>)>> >>)

Series000 == << <<"0", ":", "0", ":", "0">>, SdmxSeries(PlainObservations) >>
Series010 == << <<"0", ":", "1", ":", "0">>, SdmxSeries(OtherObservations) >>

\* Family 1: every structure, few data sets.
FewDataSets ==
    { Undefined,
      Arr(<<>>),
      Arr(<<SdmxDataSet(Undefined)>>),
      Arr(<<SdmxDataSet(Obj(<<Series000>>))>>),
      Arr(<<SdmxDataSet(Obj(<<Series000, Series010>>))>>) }

StructureDocuments ==
    { SdmxJsonResponse(ds, st) :
        ds \in FewDataSets,
        st \in NoStructures \cup
               { SdmxStructure(s, o) :
                   s \in SeriesDimensionLists, o \in ObservationDimensionLists } }

\* Family 2: every series key, beside a plain series or alone.
OddSegments == { <<"2">>, <<"3">>, <<"a">>, <<>>, <<"-", "1">>, <<"0", "1">> }

SeriesKeys ==
    { Join(q, <<":">>) :
        q \in { q \in UNION {[1..m -> {<<"0">>, <<"1">>} \cup OddSegments] : m \in 1..(MaxDims + 1)} :
                  Cardinality({i \in DOMAIN q : q[i] \in OddSegments}) <= 1 } }

SeriesEntriesAround(entry) ==
    { e \in { <<entry>>, <<entry, Series010>>, <<Series010, entry>> } : OwnKeysOrdered(e) }

SeriesKeyDocuments ==
    { SdmxJsonResponse(Arr(<<SdmxDataSet(Obj(e))>>), st) :
        e \in UNION { SeriesEntriesAround(<<key, SdmxSeries(PlainObservations)>>) :
                        key \in SeriesKeys },
        st \in {StdStructure, RevStructure} }

\* Family 3: every observation mapping, in a series beside a plain one or alone.
ObservationKeys == { <<"0">>, <<"1">>, <<"2">>, <<"7">>, <<"a">>, <<>> }
ObservationTuples ==
    { Null, Arr(<<>>), Arr(<<Null>>), Arr(<<Num(0)>>), Arr(<<Num(10300), Num(0)>>), Num(7) }

ObservationMappings ==
    { Obj(e) : e \in { e \in SeqsUpTo(ObservationKeys \X ObservationTuples, MaxObs) :
                         OwnKeysOrdered(e) } }

SeriesValues ==
    { Null, SdmxSeries(Undefined) } \cup { SdmxSeries(o) : o \in ObservationMappings }

ObservationDocuments ==
    { SdmxJsonResponse(Arr(<<SdmxDataSet(Obj(e))>>), StdStructure) :
        e \in UNION { SeriesEntriesAround(<<Series000[1], sv>>) : sv \in SeriesValues } }

\* Family 4: every list of data sets, under a structure or none.
DataSetPool ==
    { Null,
      SdmxDataSet(Undefined),
      SdmxDataSet(Obj(<<>>)),
      SdmxDataSet(Obj(<<Series000>>)),
      SdmxDataSet(Obj(<<Series010>>)),
      SdmxDataSet(Obj(<< <<Series000[1], SdmxSeries(Undefined)>> >>)) }

DataSetLists ==
    {Undefined, Null} \cup {Arr(q) : q \in SeqsUpTo(DataSetPool, MaxDataSets)}

DataSetDocuments ==
    { SdmxJsonResponse(ds, st) :
        ds \in DataSetLists,
        st \in NoStructures \cup
               { StdStructure, RevStructure,
                 SdmxStructure(Undefined, Arr(<<TimeDimension>>)),
                 SdmxStructure(Arr(<<>>), Arr(<<>>)) } }

\* The families, one after the other.
Documents ==
    <<StructureDocuments, SeriesKeyDocuments, ObservationDocuments, DataSetDocuments>>

----------------------------------------------------------------------------
(* The decoder run on one document.                                        *)

NoOutcome == [kind |-> "none", value |-> <<>>, error |-> NoError]
NoRequest == [op |-> "none"]

\* get is not under way and was never called.
FetcherIdle ==
    /\ fpc = "idle"
    /\ fetchCalls = 0
    /\ timer = "unset"
    /\ elapsed = 0
    /\ externalSignal = Undefined
    /\ signal = Undefined
    /\ response = Undefined
    /\ getOutcome = NoOutcome
    /\ overlapped = <<>>

\* No client operation under way.
ClientIdle ==
    /\ request = NoRequest
    /\ resolved = Undefined
    /\ cpc = "idle"
    /\ requestUrl = Undefined
    /\ gets = 0
    /\ fetched = NoOutcome
    /\ rateOutcome = NoOutcome
    /\ result = NoOutcome

Init ==
    /\ \E family \in DOMAIN Documents : data \in Documents[family]
    /\ pc = "ready"
    /\ outcome = NoOutcome
    /\ calls = <<>>
    /\ config = EcbClient(Undefined)
    /\ ClientIdle
    /\ previous = Undefined
    /\ fetcher = FetchHttpFetcher(Undefined)
    /\ FetcherIdle

\* The call of parseJsonResponse.
Decode ==
    /\ pc = "ready"
    /\ outcome' = parseJsonResponse(data)
    /\ pc' = "done"
    /\ calls' = IF cpc = "idle" THEN <<<<data, outcome'>>>> ELSE calls
    /\ UNCHANGED data
    /\ UNCHANGED clientVars
    /\ UNCHANGED fetcherVars

\* A later call of parseJsonResponse by the same caller: on the document of
\* the first call again, or on another document in between.
DecodeAgain ==
    /\ pc = "done"
    /\ cpc = "idle"
    /\ Len(calls) < MaxCalls
    /\ \E d \in { calls[1][1],
                  SdmxJsonResponse(Arr(<<SdmxDataSet(Obj(<<Series010>>))>>), StdStructure) } :
          /\ data' = d
          /\ outcome' = parseJsonResponse(d)
          /\ calls' = Append(calls, <<d, outcome'>>)
    /\ UNCHANGED pc
    /\ UNCHANGED clientVars
    /\ UNCHANGED fetcherVars

Next == Decode \/ DecodeAgain

Spec == Init /\ [][Next]_vars

----------------------------------------------------------------------------
(* parseSdmxJson run on one text: the text of a document, as               *)
(* JSON.stringify writes it, or a text that is no JSON.                    *)

\* Texts that are no JSON, made from the text of a document: the text cut
\* short, and the text with something after its end.
BrokenTexts(tokens) ==
    { [k |-> "string", text |-> t] :
        t \in { SubSeq(tokens, 1, Len(tokens) - 1),
                tokens \o <<Mark(","), Null>> } }

\* data is the document and fetched holds the text handed to parseSdmxJson.
InitParse ==
    /\ \E family \in DOMAIN Documents : data \in Documents[family] \cup {Null}
    /\ pc = "ready"
    /\ outcome = NoOutcome
    /\ calls = <<>>
    /\ config = EcbClient(Undefined)
    /\ request = NoRequest
    /\ resolved = Undefined
    /\ cpc = "parse"
    /\ requestUrl = Undefined
    /\ gets = 0
    /\ \E raw \in {JsonText(data), NotJsonText} \cup BrokenTexts(Stringify(data)) :
          fetched = Return(raw)
    /\ rateOutcome = NoOutcome
    /\ result = NoOutcome
    /\ previous = Undefined
    /\ fetcher = CustomFetcher
    /\ FetcherIdle

\* The call of parseSdmxJson.
ParseText ==
    /\ pc = "ready"
    /\ cpc = "parse"
    /\ outcome' = parseSdmxJson(fetched.value)
    /\ pc' = "done"
    /\ cpc' = "decode"
    /\ UNCHANGED <<data, calls, config, request, resolved, requestUrl, gets, fetched,
                   rateOutcome, result, previous>>
    /\ UNCHANGED fetcherVars

NextParse == ParseText

SpecParse == InitParse /\ [][NextParse]_vars

----------------------------------------------------------------------------
(* The client: one operation from its call to its settlement.              *)

CurrencyUSD == Chars(<<"U", "S", "D">>)
CurrencyGBP == Chars(<<"G", "B", "P">>)
CurrencyEUR == Chars(<<"E", "U", "R">>)
CurrencyLower == Chars(<<"u", "s", "d">>)
CurrencyShort == Chars(<<"x">>)
DateJan15 == Chars(<<"2", "0", "2", "5", "-", "0", "1", "-", "1", "5">>)
DateJan18 == Chars(<<"2", "0", "2", "5", "-", "0", "1", "-", "1", "8">>)
DateShort == Chars(<<"2", "0", "2", "5", "-", "1", "-", "1", "5">>)

ArgCurrencies == {CurrencyUSD, CurrencyGBP, CurrencyLower, CurrencyShort}
DateMonth13 == Chars(<<"2", "0", "2", "5", "-", "1", "3", "-", "0", "1">>)

ArgDates == {DateJan15, DateJan18, DateMonth13, DateShort}
ArgFrequencies == {Undefined, Str("M")}
ArgBaseCurrencies == {Undefined, CurrencyEUR, CurrencyLower}

\* Currency lists without repetition.
ArgCurrencyLists ==
    { q \in SeqsUpTo(ArgCurrencies, MaxCurrencies) :
        \A i, j \in DOMAIN q : i # j => q[i] # q[j] }

ArgQueries ==
    { ExchangeRateQuery(c, s, e, Undefined, b) :
        c \in ArgCurrencyLists, s \in ArgDates, e \in {Undefined} \cup ArgDates,
        b \in ArgBaseCurrencies }

Configs == { EcbClient(b) : b \in {Undefined, CurrencyUSD} }

\* The responses of the transport: the fixtures' shapes, a response whose
\* only series cannot be resolved, responses the decoder fails on, and
\* texts that are JSON null or no JSON.
EmptyResponse == SdmxJsonResponse(Arr(<<>>), StdStructure)
SingleCurrencyResponse ==
    SdmxJsonResponse(Arr(<<SdmxDataSet(Obj(<<Series000>>))>>), StdStructure)
MultiCurrencyResponse ==
    SdmxJsonResponse(Arr(<<SdmxDataSet(Obj(<<Series000, Series010>>))>>), StdStructure)
UnresolvedSeriesResponse ==
    SdmxJsonResponse(
        Arr(<<SdmxDataSet(Obj(<< <<<<"0", ":", "3", ":", "0">>,
                                   SdmxSeries(PlainObservations)>> >>))>>),
        StdStructure)
NoStructureResponse ==
    SdmxJsonResponse(Arr(<<SdmxDataSet(Obj(<<Series000>>))>>), Undefined)
NoObservationsResponse ==
    SdmxJsonResponse(
        Arr(<<SdmxDataSet(Obj(<< <<Series000[1], SdmxSeries(Undefined)>> >>))>>),
        StdStructure)

\* The texts a response may have: the documents above, one with two data
\* sets that hold the same series with different rates, one whose first
\* currency has the id __proto__, one without the CURRENCY dimension, JSON
\* null, and a text that is no JSON.
ResponseTexts ==
    { JsonText(d) :
        d \in { EmptyResponse, SingleCurrencyResponse, MultiCurrencyResponse,
                UnresolvedSeriesResponse, NoStructureResponse, NoObservationsResponse,
                SdmxJsonResponse(
                    Arr(<<SdmxDataSet(Obj(<<Series000>>)),
                          SdmxDataSet(Obj(<< <<Series000[1],
                                               SdmxSeries(OtherObservations)>> >>))>>),
                    StdStructure),
                SdmxJsonResponse(
                    Arr(<<SdmxDataSet(Obj(<<Series000, Series010>>))>>),
                    SdmxStructure(
                        Arr(<<FreqDimension,
                              SdmxDimension("CURRENCY",
                                            Arr(<<SdmxValue(Str("__proto__")), GBP>>)),
                              SdmxDimension("CURRENCY_DENOM", Arr(<<EUR>>))>>),
                        Arr(<<TimeDimension>>))),
                SdmxJsonResponse(
                    Arr(<<SdmxDataSet(Obj(<<Series000>>))>>),
                    SdmxStructure(Arr(<<FreqDimension>>), Arr(<<TimeDimension>>))),
                Null } }
    \cup { NotJsonText }

\* How the get of a fetcher the caller supplied may settle.
FetcherOutcomes ==
    { Return(t) : t \in ResponseTexts }
    \cup {
           Throw(EcbApiError(404, "Not Found", "")),
           Throw(EcbNetworkError(<<"Network request failed">>, [name |-> "TypeError"])) }

----------------------------------------------------------------------------
(* FetchHttpFetcher.get: from its call to its settlement.                  *)

ArgTimeouts == {Undefined, Num(10000)}

\* What a caller's signal aborts with: the reason of controller.abort(), of
\* AbortSignal.timeout, of controller.abort("stop").
AbortReasons ==
    { AbortError,
      [name |-> "TimeoutError", message |-> "The operation was aborted due to timeout"],
      Str("stop") }

\* The signal get is called with: none, one not aborted, one aborted already.
ArgSignals ==
    {Undefined, AbortSignal(FALSE, Undefined)}
        \cup {AbortSignal(TRUE, reason) : reason \in AbortReasons}

\* What the fetch function may resolve with.
Responses ==
    { Response(200, "OK", t) : t \in ResponseTexts }
    \cup { Response(404, "Not Found", b) : b \in {"", "No results found."} }
    \cup { Response(500, "Internal Server Error", "") }

InFlight == fpc \in {"fetching", "reading"}

\* Mutant of ClearTimeout: the timeout is left as it is (no finally block).
ClearTimeout_Never(t) == t

\* Line 66: clearTimeout(timeoutId) on the timeout of the call: a timeout
\* that is pending is cancelled, one that has fired stays as it is.
ClearTimeout(t) == IF t = "armed" THEN "cleared" ELSE t

\* Mutant of GetCalled: the fetch function gets the timeout's signal only.
GetCalled_TimeoutSignalOnly(callerSignal) ==
    /\ timer' = "armed"
    /\ elapsed' = 0
    /\ externalSignal' = callerSignal
    /\ signal' = AbortSignal(FALSE, Undefined)
    /\ fetchCalls' = fetchCalls + 1
    /\ response' = Undefined
    /\ getOutcome' = NoOutcome
    /\ fpc' = "fetching"
    /\ UNCHANGED fetcher

\* Lines 31-44: get runs up to its first await.  The timeout is armed, the
\* signal for the fetch function is the timeout's signal or, with a signal of
\* the caller, AbortSignal.any of the two, and the fetch function is called.
GetCalled(callerSignal) ==
    /\ timer' = "armed"
    /\ elapsed' = 0
    /\ externalSignal' = callerSignal
    /\ signal' = IF callerSignal # Undefined
                 THEN AbortSignal(callerSignal.aborted, callerSignal.reason)
                 ELSE AbortSignal(FALSE, Undefined)
    /\ fetchCalls' = fetchCalls + 1
    /\ response' = Undefined
    /\ getOutcome' = NoOutcome
    /\ fpc' = "fetching"
    /\ UNCHANGED fetcher

\* Mutant of GetSettles: a failure is answered by calling the fetch function
\* once more.
GetSettles_RetriesOnce(o) ==
    IF o.kind = "throw" /\ fetchCalls < 2
    THEN /\ fetchCalls' = fetchCalls + 1
         /\ fpc' = "fetching"
         /\ UNCHANGED <<overlapped, fetcher, timer, elapsed, externalSignal, signal, response, getOutcome>>
    ELSE /\ getOutcome' = o
         /\ fpc' = "settled"
         /\ timer' = IF timer = "armed" THEN "cleared" ELSE timer
         /\ UNCHANGED <<overlapped, fetcher, fetchCalls, elapsed, externalSignal, signal, response>>

\* get settles with o; the finally block clears the timeout.
GetSettles(o) ==
    /\ getOutcome' = o
    /\ fpc' = "settled"
    /\ timer' = ClearTimeout(timer)
    /\ UNCHANGED <<overlapped, fetcher, fetchCalls, elapsed, externalSignal, signal, response>>

\* get of a FetchHttpFetcher is called, with or without a signal.
Get ==
    /\ fpc \in {"idle", "settled"}
    /\ gets < MaxGets
    /\ \E currencies \in {<<CurrencyUSD>>, <<CurrencyUSD, CurrencyGBP>>},
          callerSignal \in ArgSignals :
          /\ requestUrl' =
                buildExchangeRateUrl(
                    ExchangeRateQuery(currencies, DateJan15, Undefined, Undefined, Undefined),
                    Undefined)
          /\ GetCalled(callerSignal)
    /\ gets' = gets + 1
    /\ UNCHANGED overlapped
    /\ UNCHANGED <<decoderVars, config, previous, request, resolved, cpc, fetched, rateOutcome, result>>

\* get is called again while the get before is at one of its awaits: the
\* call before goes on with its own timeout, beside the new call.
GetOverlaps ==
    /\ InFlight
    /\ gets < MaxGets
    /\ IF overlapped = <<>> THEN TRUE ELSE overlapped[1] = "settled"
    /\ overlapped' = <<"pending", timer>>
    /\ \E callerSignal \in ArgSignals : GetCalled(callerSignal)
    /\ gets' = gets + 1
    /\ UNCHANGED <<decoderVars, config, previous, request, resolved, cpc, requestUrl, fetched,
                   rateOutcome, result>>

\* The timeout of the call before fires.
OverlappedTimerFires ==
    /\ overlapped # <<>>
    /\ overlapped[2] = "armed"
    /\ overlapped' = <<overlapped[1], "fired">>
    /\ UNCHANGED <<fetcher, fpc, fetchCalls, timer, elapsed, externalSignal, signal, response,
                   getOutcome>>
    /\ UNCHANGED <<decoderVars, clientVars>>

\* The call before settles, one way or another; its finally block clears
\* its timeout.
OverlappedSettles ==
    /\ overlapped # <<>>
    /\ overlapped[1] = "pending"
    /\ overlapped' = <<"settled", ClearTimeout(overlapped[2])>>
    /\ UNCHANGED <<fetcher, fpc, fetchCalls, timer, elapsed, externalSignal, signal, response,
                   getOutcome>>
    /\ UNCHANGED <<decoderVars, clientVars>>

\* The fetch function resolves with a response; get goes on to read its body
\* (lines 46-51).
FetchResolves ==
    /\ fpc = "fetching"
    /\ ~signal.aborted
    /\ \E r \in Responses : response' = r
    /\ fpc' = "reading"
    /\ UNCHANGED <<overlapped, fetcher, fetchCalls, timer, elapsed, externalSignal, signal, getOutcome>>
    /\ UNCHANGED <<decoderVars, clientVars>>

\* The fetch function rejects: the request failed.
FetchFails ==
    /\ fpc = "fetching"
    /\ ~signal.aborted
    /\ GetSettles(Throw(CatchBlock([name |-> "TypeError", message |-> "fetch failed"],
                                   requestUrl, fetcher.timeoutMs)))
    /\ UNCHANGED <<decoderVars, clientVars>>

\* The fetch function rejects with the reason of its signal: the request was
\* aborted.
FetchAborted ==
    /\ fpc = "fetching"
    /\ signal.aborted
    /\ GetSettles(Throw(CatchBlock(signal.reason, requestUrl, fetcher.timeoutMs)))
    /\ UNCHANGED <<decoderVars, clientVars>>

\* response.text() resolves.
BodyRead ==
    /\ fpc = "reading"
    /\ ~signal.aborted
    /\ IF response.ok
       THEN GetSettles(Return(response.body))
       ELSE GetSettles(Throw(CatchBlock(
                EcbApiError(response.status, response.statusText, response.body),
                requestUrl, fetcher.timeoutMs)))
    /\ UNCHANGED <<decoderVars, clientVars>>

\* response.text() rejects: the body stream failed or the signal aborted.
BodyFails ==
    /\ fpc = "reading"
    /\ LET error == IF signal.aborted THEN signal.reason
                    ELSE [name |-> "TypeError", message |-> "terminated"]
       IN  IF response.ok
           THEN GetSettles(Throw(CatchBlock(error, requestUrl, fetcher.timeoutMs)))
           ELSE GetSettles(Throw(CatchBlock(
                    EcbApiError(response.status, response.statusText, ""),
                    requestUrl, fetcher.timeoutMs)))
    /\ UNCHANGED <<decoderVars, clientVars>>

\* The timeout fires, timeoutMs after the call: timeoutController.abort().
TimerFires ==
    /\ timer = "armed"
    /\ elapsed = fetcher.timeoutMs
    /\ timer' = "fired"
    /\ signal' = IF signal.aborted THEN signal ELSE AbortSignal(TRUE, AbortError)
    /\ UNCHANGED <<overlapped, fetcher, fpc, fetchCalls, elapsed, externalSignal, response, getOutcome>>
    /\ UNCHANGED <<decoderVars, clientVars>>

\* The caller aborts its signal while get is under way.
CallerAborts ==
    /\ InFlight
    /\ externalSignal # Undefined
    /\ ~externalSignal.aborted
    /\ \E reason \in AbortReasons :
          /\ externalSignal' = AbortSignal(TRUE, reason)
          /\ signal' = IF signal.aborted THEN signal ELSE AbortSignal(TRUE, reason)
    /\ UNCHANGED <<overlapped, fetcher, fpc, fetchCalls, timer, elapsed, response, getOutcome>>
    /\ UNCHANGED <<decoderVars, clientVars>>

\* Time passes while get is under way, never past an armed timeout; the
\* instants looked at are 10, 30 and 60 seconds after the call.
Tick ==
    /\ InFlight
    /\ \E t \in {10000, 30000, 60000} :
          /\ t > elapsed
          /\ timer = "armed" => t <= fetcher.timeoutMs
          /\ elapsed' = t
    /\ UNCHANGED <<overlapped, fetcher, fpc, fetchCalls, timer, externalSignal, signal, response,
                   getOutcome>>
    /\ UNCHANGED <<decoderVars, clientVars>>

InitFetcher ==
    /\ data = Undefined
    /\ pc = "idle"
    /\ outcome = NoOutcome
    /\ calls = <<>>
    /\ config = EcbClient(Undefined)
    /\ ClientIdle
    /\ previous = Undefined
    /\ fetcher \in {FetchHttpFetcher(t) : t \in ArgTimeouts}
    /\ FetcherIdle

NextFetcher ==
    \/ Get
    \/ FetchResolves
    \/ FetchFails
    \/ FetchAborted
    \/ BodyRead
    \/ BodyFails
    \/ TimerFires
    \/ CallerAborts
    \/ Tick
    \/ GetOverlaps
    \/ OverlappedTimerFires
    \/ OverlappedSettles

SpecFetcher == InitFetcher /\ [][NextFetcher]_vars

----------------------------------------------------------------------------
(* The client's operations.                                                *)

\* The fetcher of the client is the one its constructor makes from the
\* config (no timeoutMs given) or one handed to withFetcher.
InitClient ==
    /\ data = Undefined
    /\ pc = "idle"
    /\ outcome = NoOutcome
    /\ calls = <<>>
    /\ config \in Configs
    /\ ClientIdle
    /\ previous = Undefined
    /\ fetcher \in {FetchHttpFetcher(Undefined), CustomFetcher}
    /\ FetcherIdle

\* The operation under way settles with o: inside convert it is convert's
\* getRate that settles.
Settle(o) ==
    IF request.op = "convert"
    THEN rateOutcome' = o /\ cpc' = "finish" /\ UNCHANGED result
    ELSE result' = o /\ cpc' = "settled" /\ UNCHANGED rateOutcome

\* An operation is called (no other is under way): its query is built and
\* resolved.
Call(op, amount, q) ==
    /\ request' = [op |-> op, amount |-> amount, query |-> q]
    /\ resolved' = resolveQuery(config, q)
    /\ cpc' = "validate"
    /\ UNCHANGED <<decoderVars, config, previous, requestUrl, gets, fetched, rateOutcome, result>>
    /\ UNCHANGED fetcherVars

GetRate ==
    /\ cpc = "idle"
    /\ \E currency \in ArgCurrencies, date \in ArgDates :
          Call("getRate", 0,
               ExchangeRateQuery(<<currency>>, date, date, Undefined, Undefined))

GetRateHistory ==
    /\ cpc = "idle"
    /\ \E currency \in ArgCurrencies, startDate \in ArgDates, endDate \in ArgDates,
          frequency \in ArgFrequencies :
          Call("getRateHistory", 0,
               ExchangeRateQuery(<<currency>>, startDate, endDate,
                                 Coalesce(frequency, Str("D")), Undefined))

GetRates ==
    /\ cpc = "idle"
    /\ \E q \in ArgQueries : Call("getRates", 0, q)

GetObservations ==
    /\ cpc = "idle"
    /\ \E q \in ArgQueries : Call("getObservations", 0, q)

Convert ==
    /\ cpc = "idle"
    /\ \E amount \in {10000, 3333}, currency \in ArgCurrencies, date \in ArgDates :
          Call("convert", amount,
               ExchangeRateQuery(<<currency>>, date, date, Undefined, Undefined))

\* Mutant of Validate: the operation goes on to the fetch whatever
\* validateQuery says.
Validate_NeverRejects ==
    /\ cpc = "validate"
    /\ cpc' = "fetch"
    /\ UNCHANGED <<rateOutcome, result>>
    /\ UNCHANGED <<decoderVars, config, previous, request, resolved, requestUrl, gets, fetched>>
    /\ UNCHANGED fetcherVars

\* validateQuery(resolved)
Validate ==
    /\ cpc = "validate"
    /\ LET v == validateQuery(resolved)
       IN  IF v.kind = "throw" THEN Settle(v)
           ELSE cpc' = "fetch" /\ UNCHANGED <<rateOutcome, result>>
    /\ UNCHANGED <<decoderVars, config, previous, request, resolved, requestUrl, gets, fetched>>
    /\ UNCHANGED fetcherVars

\* fetchAndParse up to its await: the URL is built and get is called.
Fetch ==
    /\ cpc = "fetch"
    /\ requestUrl' = buildExchangeRateUrl(resolved, config.baseUrl)
    /\ gets' = gets + 1
    /\ cpc' = "await"
    /\ IF fetcher.name = "FetchHttpFetcher" THEN GetCalled(Undefined) /\ UNCHANGED overlapped
       ELSE UNCHANGED fetcherVars
    /\ UNCHANGED <<decoderVars, config, previous, request, resolved, fetched, rateOutcome, result>>

\* The fetcher's get has settled: the await of fetchAndParse goes on.
Respond ==
    /\ cpc = "await"
    /\ \E r \in IF fetcher.name = "FetchHttpFetcher"
              THEN {getOutcome}
              ELSE FetcherOutcomes :
          /\ fetcher.name = "FetchHttpFetcher" => fpc = "settled"
          /\ fetched' = r
          /\ IF r.kind = "throw" THEN Settle(r)
             ELSE cpc' = "parse" /\ UNCHANGED <<rateOutcome, result>>
    /\ UNCHANGED <<decoderVars, config, previous, request, resolved, requestUrl, gets>>
    /\ UNCHANGED fetcherVars

\* parseSdmxJson(raw); on success parseJsonResponse is called next (Decode).
ParseJson ==
    /\ cpc = "parse"
    /\ LET json == parseSdmxJson(fetched.value)
       IN  IF json.kind = "throw"
           THEN Settle(json) /\ UNCHANGED decoderVars
           ELSE /\ data' = json.value
                /\ pc' = "ready"
                /\ cpc' = "decode"
                /\ UNCHANGED <<outcome, calls, rateOutcome, result>>
    /\ UNCHANGED <<config, previous, request, resolved, requestUrl, gets, fetched>>
    /\ UNCHANGED fetcherVars

\* The rest of fetchAndParse and the shaping of the result.
Shape ==
    /\ cpc = "decode"
    /\ pc = "done"
    /\ IF outcome.kind = "throw" THEN Settle(outcome)
       ELSE LET checked == NoDataCheck(outcome.value, resolved)
            IN  IF checked.kind = "throw" THEN Settle(checked)
                ELSE Settle(Return(Shaped(config, request.op, checked.value, resolved)))
    /\ UNCHANGED <<decoderVars, config, previous, request, resolved, requestUrl, gets, fetched>>
    /\ UNCHANGED fetcherVars

\* convert after its getRate has settled.
Finish ==
    /\ cpc = "finish"
    /\ result' = convert(rateOutcome, request.amount, request.query.currencies[1])
    /\ cpc' = "settled"
    /\ UNCHANGED <<decoderVars, config, previous, request, resolved, requestUrl, gets, fetched,
                   rateOutcome>>
    /\ UNCHANGED fetcherVars

\* The operation has settled and the caller calls the same client again:
\* nothing of the operation is left but what the client itself keeps.
CallAgain ==
    /\ cpc = "settled"
    /\ previous' = resolved.baseCurrency
    /\ data' = Undefined
    /\ pc' = "idle"
    /\ outcome' = NoOutcome
    /\ request' = NoRequest
    /\ resolved' = Undefined
    /\ cpc' = "idle"
    /\ requestUrl' = Undefined
    /\ gets' = 0
    /\ fetched' = NoOutcome
    /\ rateOutcome' = NoOutcome
    /\ result' = NoOutcome
    /\ fpc' = "idle"
    /\ fetchCalls' = 0
    /\ timer' = "unset"
    /\ elapsed' = 0
    /\ externalSignal' = Undefined
    /\ signal' = Undefined
    /\ response' = Undefined
    /\ getOutcome' = NoOutcome
    /\ UNCHANGED <<config, fetcher, calls, overlapped>>

NextClient ==
    \/ GetRate
    \/ GetRateHistory
    \/ GetRates
    \/ GetObservations
    \/ Convert
    \/ Validate
    \/ Fetch
    \/ FetchResolves
    \/ FetchFails
    \/ FetchAborted
    \/ BodyRead
    \/ BodyFails
    \/ TimerFires
    \/ Tick
    \/ Respond
    \/ ParseJson
    \/ Decode
    \/ Shape
    \/ Finish
    \/ CallAgain

SpecClient == InitClient /\ [][NextClient]_vars

----------------------------------------------------------------------------
(* Reading a document without the decoder: what is where in it.  These are *)
(* the terms the properties below are stated in.                           *)

Done == pc = "done"

HasId(v) == v.k = "object" /\ v.id.k = "string" /\ v.id.v # ""

IsList(x) == x.k = "array"

HasDataSets(d) == IsList(d.dataSets) /\ Len(d.dataSets.v) > 0

HasDimensionLists(d) ==
    /\ d.structure.k = "object"
    /\ d.structure.dimensions.k = "object"
    /\ IsList(d.structure.dimensions.series)
    /\ IsList(d.structure.dimensions.observation)

SeriesDims(d) == d.structure.dimensions.series.v
ObsDims(d) == d.structure.dimensions.observation.v

Names(dims, id) == \E i \in 1..Len(dims) : dims[i].id = Str(id)

\* One-based position of the first dimension called id.
FirstNamed(dims, id) ==
    CHOOSE i \in 1..Len(dims) :
        dims[i].id = Str(id) /\ \A j \in 1..(i - 1) : dims[j].id # Str(id)

\* The structural checks pass: the three dimensions exist and have vocabularies.
StructureComplete(d) ==
    /\ HasDimensionLists(d)
    /\ Names(SeriesDims(d), "CURRENCY")
    /\ Names(SeriesDims(d), "CURRENCY_DENOM")
    /\ Names(ObsDims(d), "TIME_PERIOD")
    /\ IsList(SeriesDims(d)[FirstNamed(SeriesDims(d), "CURRENCY")].values)
    /\ IsList(SeriesDims(d)[FirstNamed(SeriesDims(d), "CURRENCY_DENOM")].values)
    /\ IsList(ObsDims(d)[FirstNamed(ObsDims(d), "TIME_PERIOD")].values)

CurrencyPos(d) == FirstNamed(SeriesDims(d), "CURRENCY")
DenomPos(d) == FirstNamed(SeriesDims(d), "CURRENCY_DENOM")
CurrencyVocab(d) == SeriesDims(d)[CurrencyPos(d)].values.v
DenomVocab(d) == SeriesDims(d)[DenomPos(d)].values.v
TimeVocab(d) == ObsDims(d)[FirstNamed(ObsDims(d), "TIME_PERIOD")].values.v

\* A key written the canonical way for n dimensions: n single digits
\* separated by colons.  Its i-th index is then the digit at 2i - 1.
CanonicalKey(key, n) ==
    /\ n >= 1
    /\ Len(key) = 2 * n - 1
    /\ \A i \in 1..Len(key) : IF i % 2 = 1 THEN key[i] \in Digits ELSE key[i] = ":"

KeyIndex(key, i) == DigitValue(key[2 * i - 1])

\* The index is inside the vocabulary and the value there has an identifier.
IndexesId(vocab, n) == n < Len(vocab) /\ HasId(vocab[n + 1])

RECURSIVE Flatten(_)
Flatten(lists) ==
    IF Len(lists) = 0 THEN <<>> ELSE lists[1] \o Flatten(Tail(lists))

\* All data sets have series, all series keys and observation keys are
\* canonical and index identifiers, all tuples are lists.
WellFormedSeries(d, entry) ==
    /\ CanonicalKey(entry[1], Len(SeriesDims(d)))
    /\ IndexesId(CurrencyVocab(d), KeyIndex(entry[1], CurrencyPos(d)))
    /\ IndexesId(DenomVocab(d), KeyIndex(entry[1], DenomPos(d)))
    /\ entry[2].k = "object"
    /\ entry[2].observations.k = "object"
    /\ \A o \in 1..Len(entry[2].observations.entries) :
          LET obs == entry[2].observations.entries[o]
          IN  /\ CanonicalKey(obs[1], 1)
              /\ IndexesId(TimeVocab(d), KeyIndex(obs[1], 1))
              /\ IsList(obs[2])

WellFormed(d) ==
    /\ HasDataSets(d)
    /\ StructureComplete(d)
    /\ \A i \in 1..Len(d.dataSets.v) :
          /\ d.dataSets.v[i].k = "object"
          /\ d.dataSets.v[i].series.k = "object"
          /\ \A j \in 1..Len(d.dataSets.v[i].series.entries) :
                WellFormedSeries(d, d.dataSets.v[i].series.entries[j])

HasRate(tuple) == Len(tuple.v) >= 1 /\ tuple.v[1].k \notin {"null", "undefined"}

\* The observations a well-formed series stands for, one per tuple with a rate.
SeriesObservations(d, entry) ==
    LET obs == entry[2].observations.entries
    IN  Flatten([o \in 1..Len(obs) |->
                    IF HasRate(obs[o][2])
                    THEN << [currency |->
                                CurrencyVocab(d)[KeyIndex(entry[1], CurrencyPos(d)) + 1].id,
                             baseCurrency |->
                                DenomVocab(d)[KeyIndex(entry[1], DenomPos(d)) + 1].id,
                             date |-> TimeVocab(d)[KeyIndex(obs[o][1], 1) + 1].id,
                             rate |-> obs[o][2].v[1]] >>
                    ELSE <<>>])

DocumentObservations(d) ==
    Flatten([i \in 1..Len(d.dataSets.v) |->
                LET entries == d.dataSets.v[i].series.entries
                IN  Flatten([j \in 1..Len(entries) |-> SeriesObservations(d, entries[j])])])

----------------------------------------------------------------------------
(* Properties of the decoder.                                              *)

\* C1: on a well-formed document (data sets present, the three dimensions
\* with vocabularies, every series key and observation key indexing an
\* identifier) parseJsonResponse returns exactly one observation per
\* (series, observation with a rate) pair, each with the currency, base
\* currency and date the vocabularies hold at the key's indices and the
\* tuple's first element as rate.
C1_OnePerPair ==
    (Done /\ WellFormed(data)) => outcome = Return(DocumentObservations(data))

\* Two series in one data set, one of them with a null rate, decoded to
\* three observations.
C1_Witness ==
    /\ Done
    /\ WellFormed(data)
    /\ Len(data.dataSets.v[1].series.entries) = 2
    /\ \E j \in 1..2 :
          \E o \in 1..Len(data.dataSets.v[1].series.entries[j][2].observations.entries) :
             ~HasRate(data.dataSets.v[1].series.entries[j][2].observations.entries[o][2])
    /\ outcome.kind = "return"
    /\ Len(outcome.value) = 3

\* C2: every observation parseJsonResponse returns has a non-empty date,
\* currency and base currency and a rate that is neither null nor absent.
C2_ObservationsComplete ==
    (Done /\ outcome.kind = "return") =>
        \A n \in 1..Len(outcome.value) :
            LET obs == outcome.value[n]
            IN  /\ obs.date.k = "string" /\ obs.date.v # ""
                /\ obs.currency.k = "string" /\ obs.currency.v # ""
                /\ obs.baseCurrency.k = "string" /\ obs.baseCurrency.v # ""
                /\ obs.rate.k \notin {"null", "undefined"}

\* Observations were returned although the document has a series whose key
\* points at the base-currency value with the empty id.
C2_Witness ==
    /\ Done
    /\ outcome.kind = "return"
    /\ Len(outcome.value) >= 1
    /\ data.structure = StdStructure
    /\ data.dataSets.v[1].k = "object"
    /\ data.dataSets.v[1].series.k = "object"
    /\ \E j \in 1..Len(data.dataSets.v[1].series.entries) :
          data.dataSets.v[1].series.entries[j][1] = <<"0", ":", "0", ":", "1">>

\* C3: when dataSets is absent or empty parseJsonResponse returns the empty
\* list, whatever the rest of the document holds.
C3_NoDataSetsNoError ==
    (Done /\ (IsNullish(data.dataSets) \/ (IsList(data.dataSets) /\ Len(data.dataSets.v) = 0)))
        => outcome = Return(<<>>)

\* Empty dataSets and no structure at all, decoded to the empty list.
C3_Witness ==
    /\ Done
    /\ data.dataSets = Arr(<<>>)
    /\ data.structure = Undefined
    /\ outcome = Return(<<>>)

\* C4: each resolver returns the zero-based position of the first dimension
\* with the id and, when there is none (also in an empty list), fails with
\* an EcbParseError naming the list and the id; in parseJsonResponse with
\* data sets the missing CURRENCY, CURRENCY_DENOM or TIME_PERIOD is raised
\* whatever the data sets hold.
ResolverIds == {"CURRENCY", "CURRENCY_DENOM", "TIME_PERIOD", "FREQ"}

MissingSeriesDimension(id) ==
    Throw([name |-> "EcbParseError", code |-> "ECB_PARSE_ERROR",
           message |-> <<"Missing series dimension \"", id,
                         "\" in SDMX-JSON structure.">>,
           cause |-> Undefined])

MissingObservationDimension(id) ==
    Throw([name |-> "EcbParseError", code |-> "ECB_PARSE_ERROR",
           message |-> <<"Missing observation dimension \"", id,
                         "\" in SDMX-JSON structure.">>,
           cause |-> Undefined])

C4_ResolverFirstOrFail ==
    (Done /\ HasDimensionLists(data)) =>
        /\ \A id \in ResolverIds :
              /\ findDimensionIndex(data.structure.dimensions.series, id) =
                    IF Names(SeriesDims(data), id)
                    THEN Return(FirstNamed(SeriesDims(data), id) - 1)
                    ELSE MissingSeriesDimension(id)
              /\ findObservationDimensionIndex(data.structure.dimensions.observation, id) =
                    IF Names(ObsDims(data), id)
                    THEN Return(FirstNamed(ObsDims(data), id) - 1)
                    ELSE MissingObservationDimension(id)
        /\ HasDataSets(data) =>
              IF ~Names(SeriesDims(data), "CURRENCY")
              THEN outcome = MissingSeriesDimension("CURRENCY")
              ELSE IF ~Names(SeriesDims(data), "CURRENCY_DENOM")
              THEN outcome = MissingSeriesDimension("CURRENCY_DENOM")
              ELSE ~Names(ObsDims(data), "TIME_PERIOD") =>
                      outcome = MissingObservationDimension("TIME_PERIOD")

\* Two CURRENCY dimensions in the series list, no TIME_PERIOD in the
\* observation list, a data set without series: the missing dimension is
\* raised.
C4_Witness ==
    /\ Done
    /\ HasDimensionLists(data)
    /\ HasDataSets(data)
    /\ Cardinality({i \in 1..Len(SeriesDims(data)) :
                       SeriesDims(data)[i].id = Str("CURRENCY")}) = 2
    /\ Names(SeriesDims(data), "CURRENCY_DENOM")
    /\ FirstNamed(SeriesDims(data), "CURRENCY") > 1
    /\ data.dataSets = Arr(<<SdmxDataSet(Undefined)>>)
    /\ outcome = MissingObservationDimension("TIME_PERIOD")

\* C5 as claimed: with data sets, a structure whose dimensions lack the
\* series list or the observation list makes parseJsonResponse raise
\* EcbParseError and nothing else.
C5_AbsentListsRaiseParseError ==
    (/\ Done
     /\ HasDataSets(data)
     /\ data.structure.k = "object"
     /\ data.structure.dimensions.k = "object"
     /\ \/ IsNullish(data.structure.dimensions.series)
        \/ IsNullish(data.structure.dimensions.observation))
        => (outcome.kind = "throw" /\ outcome.error.name = "EcbParseError")

----------------------------------------------------------------------------
(* Series keys, read by counting separators.                               *)

Separators(key) == {i \in 1..Len(key) : key[i] = ":"}

SegmentCount(key) == Cardinality(Separators(key)) + 1

\* The n-th smallest element of a set of numbers.
Nth(S, n) == CHOOSE x \in S : Cardinality({y \in S : y < x}) = n - 1

\* The p-th segment (one-based) of a key with at least p segments.
SegmentAt(key, p) ==
    LET from == IF p = 1 THEN 1 ELSE Nth(Separators(key), p - 1) + 1
        to == IF p = SegmentCount(key) THEN Len(key) ELSE Nth(Separators(key), p) - 1
    IN  SubSeq(key, from, to)

\* The document without series j of data set i.
Without(d, i, j) ==
    [d EXCEPT !.dataSets.v[i].series.entries =
                  SubSeq(@, 1, j - 1) \o SubSeq(@, j + 1, Len(@))]

\* The series of the document: <<data set, position>> pairs.
SeriesOf(d) ==
    UNION { { <<i, j>> : j \in 1..Len(d.dataSets.v[i].series.entries) } :
              i \in { i \in 1..Len(d.dataSets.v) :
                        /\ d.dataSets.v[i].k = "object"
                        /\ d.dataSets.v[i].series.k = "object" } }

KeyOf(d, ij) == d.dataSets.v[ij[1]].series.entries[ij[2]][1]

\* The series adds nothing and raises nothing: the document decodes as it
\* does without it.
Skipped(d, ij) == outcome = parseJsonResponse(Without(d, ij[1], ij[2]))

\* The key has no segment at the CURRENCY or the CURRENCY_DENOM position.
LacksPosition(d, key) ==
    SegmentCount(key) < CurrencyPos(d) \/ SegmentCount(key) < DenomPos(d)

\* The segment is a one-digit index that is outside the vocabulary or at a
\* value without an id.
MissesVocab(segment, vocab) ==
    /\ Len(segment) = 1
    /\ segment[1] \in Digits
    /\ ~IndexesId(vocab, DigitValue(segment[1]))

\* C6 as claimed: a series whose key has a number of segments different
\* from the number of series dimensions, fewer or more, contributes no
\* observation and raises nothing.
C6_MismatchedKeySkipped ==
    (Done /\ HasDataSets(data) /\ StructureComplete(data)) =>
        \A ij \in SeriesOf(data) :
            SegmentCount(KeyOf(data, ij)) # Len(SeriesDims(data)) => Skipped(data, ij)

\* C6 amended: a series whose key has too few segments to reach the
\* CURRENCY or the CURRENCY_DENOM position contributes no observation and
\* raises nothing.
C6_ShortKeySkipped ==
    (Done /\ HasDataSets(data) /\ StructureComplete(data)) =>
        \A ij \in SeriesOf(data) :
            LacksPosition(data, KeyOf(data, ij)) => Skipped(data, ij)

\* A two-segment key under the three-dimension structure, before a plain
\* series that is decoded.
C6_Witness ==
    /\ Done
    /\ data.structure = StdStructure
    /\ HasDataSets(data)
    /\ <<1, 1>> \in SeriesOf(data)
    /\ <<1, 2>> \in SeriesOf(data)
    /\ SegmentCount(KeyOf(data, <<1, 1>>)) = 2
    /\ outcome.kind = "return"
    /\ Len(outcome.value) = 1

\* C7: a series whose key has no segment at the CURRENCY or CURRENCY_DENOM
\* position, or whose segment there indexes outside the vocabulary or at a
\* value without an id, is skipped without raising, and the other series
\* are decoded as without it.
C7_UnresolvableSeriesSkipped ==
    (Done /\ HasDataSets(data) /\ StructureComplete(data)) =>
        \A ij \in SeriesOf(data) :
            LET key == KeyOf(data, ij)
            IN  (\/ LacksPosition(data, key)
                 \/ /\ ~LacksPosition(data, key)
                    /\ \/ MissesVocab(SegmentAt(key, CurrencyPos(data)), CurrencyVocab(data))
                       \/ MissesVocab(SegmentAt(key, DenomPos(data)), DenomVocab(data)))
                => Skipped(data, ij)

\* A series whose currency index is past the vocabulary, after a plain
\* series that is decoded.
C7_Witness ==
    /\ Done
    /\ data.structure = StdStructure
    /\ HasDataSets(data)
    /\ <<1, 1>> \in SeriesOf(data)
    /\ <<1, 2>> \in SeriesOf(data)
    /\ KeyOf(data, <<1, 1>>) = Series010[1]
    /\ KeyOf(data, <<1, 2>>) = <<"0", ":", "3", ":", "0">>
    /\ outcome.kind = "return"
    /\ Len(outcome.value) = 1

\* C8 as claimed: once the dimensions and vocabularies are there,
\* parseJsonResponse raises nothing, whatever the series and observations
\* hold.
C8_NoRaiseAfterStructure ==
    (/\ Done
     /\ HasDataSets(data)
     /\ StructureComplete(data)
     /\ \A i \in 1..Len(data.dataSets.v) : data.dataSets.v[i].k = "object"
     /\ \A ij \in SeriesOf(data) :
           data.dataSets.v[ij[1]].series.entries[ij[2]][2].k = "object")
        => outcome.kind = "return"

----------------------------------------------------------------------------
(* The client's operations on what the decoder yields.                     *)

\* What the operation under way settled with: inside convert, what convert's
\* getRate settled with.
Settled == IF request.op = "convert" THEN rateOutcome ELSE result

HasSettled == cpc \in {"finish", "settled"}

\* C9: when the decoder yields zero observations, getRate, getRateHistory,
\* getRates and getObservations reject with EcbNoDataError (ECB_NO_DATA)
\* carrying the resolved query's currencies, startDate and endDate; none of
\* them returns an empty result.
C9_ZeroObservationsRejected ==
    (HasSettled /\ Done /\ outcome = Return(<<>>)) =>
        /\ Settled.kind = "throw"
        /\ Settled.error.name = "EcbNoDataError"
        /\ Settled.error.code = "ECB_NO_DATA"
        /\ Settled.error.currencies = resolved.currencies
        /\ Settled.error.startDate = resolved.startDate
        /\ Settled.error.endDate = resolved.endDate

\* getObservations for two currencies over a date range has rejected on a
\* response whose data set holds a series, none of it decodable.
C9_Witness ==
    /\ request.op = "getObservations"
    /\ cpc = "settled"
    /\ Done
    /\ outcome = Return(<<>>)
    /\ HasDataSets(data)
    /\ result.kind = "throw"
    /\ result.error.code = "ECB_NO_DATA"
    /\ Len(result.error.currencies) = 2
    /\ result.error.endDate # Undefined
    /\ result.error.endDate # result.error.startDate

\* C10: convert returns null exactly when its getRate rejects with
\* EcbNoDataError; every other failure of getRate is the failure of convert,
\* unchanged.
C10_ConvertNullOnlyOnNoData ==
    (request.op = "convert" /\ cpc = "settled") =>
        /\ (result = Return(Null))
              <=> (rateOutcome.kind = "throw"
                   /\ rateOutcome.error.name = "EcbNoDataError")
        /\ (rateOutcome.kind = "throw" /\ rateOutcome.error.name # "EcbNoDataError")
              => result = rateOutcome

\* convert has returned null on an empty response.
C10_Witness ==
    /\ request.op = "convert"
    /\ cpc = "settled"
    /\ gets = 1
    /\ rateOutcome.kind = "throw"
    /\ rateOutcome.error.name = "EcbNoDataError"
    /\ result = Return(Null)

----------------------------------------------------------------------------
(* The order of the steps of a client operation.                           *)

Called == cpc # "idle"

Validated == Called /\ cpc # "validate"

\* C11: in every client operation the steps come in the order validate,
\* build URL, fetch, parse JSON, decode, shape: a URL was built and get was
\* called only for a query that passed validateQuery, a document was parsed
\* only from the text get resolved with, the decoder ran only on the parsed
\* document, and a result was shaped only from what the decoder returned.
\* When validateQuery fails on the resolved query the operation rejects with
\* its EcbValidationError and get is never called.
C11_StepsInOrder ==
    /\ requestUrl # Undefined =>
          /\ Validated
          /\ validateQuery(resolved).kind = "return"
          /\ requestUrl = buildExchangeRateUrl(resolved, config.baseUrl)
    /\ gets > 0 => requestUrl # Undefined
    /\ fetched # NoOutcome => gets = 1
    /\ pc # "idle" => fetched.kind = "return" /\ fetched.value = JsonText(data)
    /\ pc = "done" => cpc \in {"decode", "finish", "settled"}
    /\ (HasSettled /\ Settled.kind = "return") => pc = "done" /\ outcome.kind = "return"
    /\ (Validated /\ validateQuery(resolved).kind = "throw") =>
          /\ HasSettled
          /\ Settled = validateQuery(resolved)
          /\ Settled.error.name = "EcbValidationError"
          /\ (cpc = "settled" => result = validateQuery(resolved))
          /\ gets = 0
          /\ fetchCalls = 0

\* getRateHistory with a start date after the end date has rejected, and no
\* request was made.
C11_Witness ==
    /\ request.op = "getRateHistory"
    /\ cpc = "settled"
    /\ MatchesIsoDate(resolved.startDate)
    /\ MatchesIsoDate(resolved.endDate)
    /\ result.kind = "throw"
    /\ result.error.name = "EcbValidationError"
    /\ gets = 0
    /\ requestUrl = Undefined

\* C12: there is no retry.  A client operation calls the fetcher's get at
\* most once and a FetchHttpFetcher calls the fetch function exactly once for
\* each get; a failed fetch, a non-2xx status or a failure of the parser or
\* decoder is what the operation fails with, and no further request follows.
C12_NoRetry ==
    /\ gets <= 1
    /\ fetcher.name = "FetchHttpFetcher" => fetchCalls = gets
    /\ fetcher.name # "FetchHttpFetcher" => fetchCalls = 0
    /\ fpc = "settled" /\ cpc # "await" => fetched = getOutcome
    /\ fetched.kind = "throw" => HasSettled /\ Settled = fetched
    /\ (/\ fetched.kind = "return"
        /\ cpc # "parse"
        /\ parseSdmxJson(fetched.value).kind = "throw") =>
          HasSettled /\ Settled = parseSdmxJson(fetched.value) /\ pc = "idle"
    /\ (Done /\ outcome.kind = "throw" /\ cpc # "decode") =>
          HasSettled /\ Settled = outcome

\* getRates has failed with the EcbApiError of its one request, for which
\* the fetch function was called once.
C12_Witness ==
    /\ request.op = "getRates"
    /\ cpc = "settled"
    /\ fetcher.name = "FetchHttpFetcher"
    /\ response # Undefined
    /\ ~response.ok
    /\ result.kind = "throw"
    /\ result.error.name = "EcbApiError"
    /\ gets = 1
    /\ fetchCalls = 1

----------------------------------------------------------------------------
(* FetchHttpFetcher.get: signals, timeout and failures.                    *)

CallerAborted == externalSignal # Undefined /\ externalSignal.aborted

Rejected(name) ==
    fpc = "settled" /\ getOutcome.kind = "throw" /\ getOutcome.error.name = name

\* C13: from the call of get on, the signal handed to the fetch function is
\* aborted exactly when the caller's signal is aborted or the timeout has
\* fired, with the reason of whichever came first; the timeout fires
\* timeoutMs after the call, 30 000 ms when none was configured; without a
\* caller's signal only the timeout aborts; and when the signal aborts while
\* the fetch function is pending or the body of an ok response is being
\* read, get rejects with EcbNetworkError.
C13_SignalAbortsOnEither ==
    /\ FetchHttpFetcher(Undefined).timeoutMs = 30000
    /\ fpc # "idle" =>
          /\ signal.aborted <=> (CallerAborted \/ timer = "fired")
          /\ timer = "armed" => elapsed <= fetcher.timeoutMs
          /\ timer = "fired" => elapsed >= fetcher.timeoutMs
          /\ (timer = "fired" /\ ~CallerAborted) => signal.reason = AbortError
          /\ (CallerAborted /\ timer # "fired") => signal.reason = externalSignal.reason
          /\ (externalSignal = Undefined /\ signal.aborted) =>
                timer = "fired" /\ elapsed >= fetcher.timeoutMs
          /\ (fpc = "settled" /\ signal.aborted /\ (response = Undefined \/ response.ok)) =>
                Rejected("EcbNetworkError")

\* The caller aborted its signal before the timeout of 10 000 ms was due,
\* while the fetch function was pending, and get rejected.
C13_Witness ==
    /\ fetcher.timeoutMs = 10000
    /\ fpc = "settled"
    /\ CallerAborted
    /\ timer = "cleared"
    /\ elapsed < fetcher.timeoutMs
    /\ response = Undefined
    /\ Rejected("EcbNetworkError")
    /\ getOutcome.error.cause = externalSignal.reason

\* C14: get resolves only for an ok response, with its text; for a response
\* that is not ok it rejects with EcbApiError carrying the status code and
\* status text, also when the error body could not be read; every other
\* failure (the fetch function rejects, the signal aborts, the body of an ok
\* response cannot be read) is an EcbNetworkError; and no EcbApiError is
\* wrapped into or replaced by an EcbNetworkError.
C14_FailureKinds ==
    fpc = "settled" =>
        /\ getOutcome.kind \in {"return", "throw"}
        /\ getOutcome.kind = "return" =>
              response # Undefined /\ response.ok /\ getOutcome.value = response.body
        /\ (response # Undefined /\ ~response.ok) =>
              /\ Rejected("EcbApiError")
              /\ getOutcome.error.code = "ECB_API_ERROR"
              /\ getOutcome.error.statusCode = response.status
              /\ getOutcome.error.statusText = response.statusText
        /\ (getOutcome.kind = "throw" /\ (response = Undefined \/ response.ok)) =>
              /\ Rejected("EcbNetworkError")
              /\ getOutcome.error.code = "ECB_NETWORK_ERROR"
              /\ IsError(getOutcome.error.cause) =>
                    getOutcome.error.cause.name # "EcbApiError"

\* A 404 whose body could not be read: get rejected with an EcbApiError
\* that has the status and no body text.
C14_Witness ==
    /\ fpc = "settled"
    /\ response # Undefined
    /\ response.status = 404
    /\ response.body # ""
    /\ Rejected("EcbApiError")
    /\ getOutcome.error.statusCode = 404
    /\ getOutcome.error.message = <<"ECB API returned ", 404, " ", "Not Found">>

----------------------------------------------------------------------------
(* The shape of the results.                                               *)

\* The operation under way has a result with a base and a rates map.
ShapedResult ==
    /\ HasSettled
    /\ request.op # "getObservations"
    /\ Settled.kind = "return"

\* C15: the base of a single-currency or multi-currency result is the
\* baseCurrency of the first decoded observation when there is one; with no
\* observation the expression falls back to the resolved query's
\* baseCurrency, and with a query that has none to the client's, which is
\* EUR unless configured.
C15_BaseFromFirstObservation ==
    /\ ShapedResult =>
          /\ Len(outcome.value) > 0
          /\ Settled.value.base = outcome.value[1].baseCurrency
    /\ Validated =>
          /\ ResultBase(config, <<>>, resolved) = resolved.baseCurrency
          /\ ResultBase(config, <<>>, request.query) =
                IF request.query.baseCurrency # Undefined
                THEN request.query.baseCurrency
                ELSE config.baseCurrency
          /\ ResultBase(EcbClient(Undefined), <<>>, request.query) =
                IF request.query.baseCurrency # Undefined
                THEN request.query.baseCurrency
                ELSE CurrencyEUR

\* getRates on a client configured with USD has a result whose base is the
\* EUR of the response's first observation, not the query's USD.
C15_Witness ==
    /\ request.op = "getRates"
    /\ cpc = "settled"
    /\ result.kind = "return"
    /\ resolved.baseCurrency = CurrencyUSD
    /\ outcome.value[1].baseCurrency = Str("EUR")
    /\ result.value.base = Str("EUR")

Keys(entries) == { entries[i][1] : i \in DOMAIN entries }

NoRepeatedKey(entries) ==
    \A i, j \in DOMAIN entries : entries[i][1] = entries[j][1] => i = j

\* The positions of the observations with this date, and with this date and
\* currency.
OnDate(observations, date) ==
    { i \in DOMAIN observations : observations[i].date = date }

OnDateFor(observations, date, currency) ==
    { i \in OnDate(observations, date) : observations[i].currency = currency }

\* The rate of the last of the observations at the positions S.
LastRate(observations, S) ==
    observations[CHOOSE i \in S : \A j \in S : j <= i].rate

\* C16: the rates map of a result has exactly the distinct dates of the
\* decoded observations as keys.  In the single-currency result each date
\* maps to the rate of the last observation with that date; in the
\* multi-currency result each date maps to a record with exactly the
\* currencies observed on that date, each with the rate of the last
\* observation with that date and currency.
C16_RatesMap ==
    ShapedResult =>
        LET observations == outcome.value
            rates == Settled.value.rates
        IN  /\ NoRepeatedKey(rates)
            /\ Keys(rates) = { observations[i].date : i \in DOMAIN observations }
            /\ \A d \in DOMAIN rates :
                  LET date == rates[d][1]
                      dateRates == rates[d][2]
                  IN  IF request.op = "getRates"
                      THEN /\ NoRepeatedKey(dateRates)
                           /\ Keys(dateRates) =
                                 { observations[i].currency :
                                     i \in OnDate(observations, date) }
                           /\ \A c \in DOMAIN dateRates :
                                 dateRates[c][2] =
                                     LastRate(observations,
                                              OnDateFor(observations, date,
                                                        dateRates[c][1]))
                      ELSE dateRates = LastRate(observations, OnDate(observations, date))

----------------------------------------------------------------------------
(* The base currency of a request.                                         *)

\* What holds of the base currency in every state of an operation.
BaseCurrencyResolved ==
    /\ EcbClient(Undefined).baseCurrency = CurrencyEUR
    /\ config \in {EcbClient(Undefined), EcbClient(CurrencyUSD)}
    /\ config.baseCurrency \in {CurrencyEUR, CurrencyUSD}
    /\ Called =>
          /\ resolved.baseCurrency =
                IF request.query.baseCurrency # Undefined
                THEN request.query.baseCurrency
                ELSE config.baseCurrency
          /\ [resolved EXCEPT !.baseCurrency = request.query.baseCurrency] = request.query
          /\ request.op \in {"getRate", "getRateHistory", "convert"} =>
                request.query.baseCurrency = Undefined
          /\ (previous # Undefined /\ request.query.baseCurrency = Undefined) =>
                resolved.baseCurrency = config.baseCurrency
    /\ (Validated /\ ~MatchesCurrency(resolved.baseCurrency)) =>
          /\ HasSettled
          /\ Settled.kind = "throw"
          /\ Settled.error.name = "EcbValidationError"
          /\ requestUrl = Undefined
    /\ requestUrl # Undefined => requestUrl.seriesKey[3] = resolved.baseCurrency

----------------------------------------------------------------------------
(* The queries validateQuery accepts.                                      *)

ThreeUpperCase(s) == s.chars \in [1..3 -> UpperCase]

\* dddd-dd-dd
DateForm(s) ==
    /\ DOMAIN s.chars = 1..10
    /\ s.chars[5] = "-" /\ s.chars[8] = "-"
    /\ \A i \in {1, 2, 3, 4, 6, 7, 9, 10} : s.chars[i] \in Digits

\* a comes before b in the order of strings, for two strings of the form
\* dddd-dd-dd.
DateBefore(a, b) ==
    \E i \in 1..10 :
        /\ \A j \in 1..(i - 1) : a.chars[j] = b.chars[j]
        /\ a.chars[i] # b.chars[i]
        /\ DigitValue(a.chars[i]) < DigitValue(b.chars[i])

Acceptable(q) ==
    /\ Len(q.currencies) > 0
    /\ \A i \in DOMAIN q.currencies : ThreeUpperCase(q.currencies[i])
    /\ DateForm(q.startDate)
    /\ q.endDate # Undefined =>
          DateForm(q.endDate) /\ ~DateBefore(q.endDate, q.startDate)
    /\ q.baseCurrency # Undefined => ThreeUpperCase(q.baseCurrency)

\* C18: validateQuery returns normally exactly when currencies is not empty,
\* every currency is three uppercase letters A-Z, startDate has the form
\* dddd-dd-dd (digits, no calendar check), endDate if present has that form
\* and is not before startDate in the order of strings (equal is accepted),
\* and baseCurrency if present is three uppercase letters; in every other
\* case it throws EcbValidationError.
C18_ValidateQueryExact ==
    Called =>
        /\ validateQuery(resolved).kind = "return" <=> Acceptable(resolved)
        /\ validateQuery(request.query).kind = "return" <=> Acceptable(request.query)
        /\ \A q \in {resolved, request.query} :
              ~Acceptable(q) =>
                  /\ validateQuery(q).kind = "throw"
                  /\ validateQuery(q).error.name = "EcbValidationError"
                  /\ validateQuery(q).error.code = "ECB_VALIDATION_ERROR"
        /\ Validated =>
              IF Acceptable(resolved)
              THEN ~HasSettled \/ Settled.kind = "return"
                               \/ Settled.error.name # "EcbValidationError"
              ELSE HasSettled /\ Settled = validateQuery(resolved)

\* getRate for a date that is no calendar date, so with endDate equal to
\* startDate, has passed validation.
C18_Witness ==
    /\ request.op = "getRate"
    /\ resolved.startDate = DateMonth13
    /\ resolved.endDate = DateMonth13
    /\ validateQuery(resolved).kind = "return"
    /\ cpc = "await"
    /\ requestUrl # Undefined

----------------------------------------------------------------------------
(* The request URL.                                                        *)

\* The characters of the currencies with a + between them.
RECURSIVE PlusJoined(_)
PlusJoined(currencies) ==
    IF currencies = <<>> THEN <<>>
    ELSE IF Len(currencies) = 1 THEN currencies[1].chars
    ELSE currencies[1].chars \o <<"+">> \o PlusJoined(Tail(currencies))

\* The URL the claim describes for the query q and the base URL b.
UrlAsClaimed(url, q, b) ==
    /\ url.base = IF b = Undefined THEN Str("https://data-api.ecb.europa.eu/service")
                  ELSE b
    /\ url.path = <<"data", "EXR">>
    /\ url.seriesKey =
          << IF q.frequency = Undefined THEN Str("D") ELSE q.frequency,
             Chars(PlusJoined(q.currencies)),
             IF q.baseCurrency = Undefined THEN CurrencyEUR ELSE q.baseCurrency,
             Str("SP00"), Str("A") >>
    /\ url.searchParams[1] = <<"startPeriod", q.startDate>>
    /\ IF q.endDate = Undefined THEN Len(url.searchParams) = 1
       ELSE /\ Len(url.searchParams) = 2
            /\ url.searchParams[2] = <<"endPeriod", q.endDate>>
    /\ \A i \in DOMAIN url.searchParams : url.searchParams[i][1] # "format"

\* C19: buildExchangeRateUrl renders
\* {baseUrl}/data/EXR/{frequency}.{currencies joined by +}.{baseCurrency}.SP00.A
\* with the currencies in the order of the query, frequency D, baseCurrency
\* EUR and the official endpoint as defaults; it always sets startPeriod to
\* startDate, sets endPeriod exactly when endDate is given, and adds no
\* format parameter.
C19_UrlShape ==
    /\ Called =>
          \A q \in {request.query, resolved},
             b \in {Undefined, Str("https://custom-api.example.com")} :
              UrlAsClaimed(buildExchangeRateUrl(q, b), q, b)
    /\ requestUrl # Undefined =>
          UrlAsClaimed(requestUrl, resolved, config.baseUrl)

\* getRates for USD and GBP without an end date has asked for
\* D.USD+GBP.EUR.SP00.A with startPeriod alone.
C19_Witness ==
    /\ request.op = "getRates"
    /\ requestUrl # Undefined
    /\ resolved.endDate = Undefined
    /\ requestUrl.seriesKey =
          << Str("D"), Chars(<<"U", "S", "D", "+", "G", "B", "P">>), CurrencyEUR,
             Str("SP00"), Str("A") >>
    /\ requestUrl.searchParams = << <<"startPeriod", resolved.startDate>> >>

----------------------------------------------------------------------------
(* The kinds of parse failures.                                            *)

\* What a caller can tell an error's kind by: its class and its code.
Kind(error) == <<error.name, error.code>>

\* parseSdmxJson has failed on the text of the response.
SyntaxFailure ==
    /\ HasSettled
    /\ fetched.kind = "return"
    /\ pc = "idle"
    /\ Settled.kind = "throw"

\* parseJsonResponse has failed on the parsed document.
DecoderFailure == Done /\ outcome.kind = "throw"

\* The failure of parseJsonResponse on a document without
\* structure.dimensions.
StructuralFailure == parseJsonResponse(NoStructureResponse).error

\* C20 as stated: a JSON-syntax failure of parseSdmxJson and a structural
\* failure of parseJsonResponse are distinct kinds, which a caller can tell
\* apart by class or code, while all failures of the decoder are of one kind
\* and differ only by message.
C20_DistinctKinds ==
    /\ SyntaxFailure => Kind(Settled.error) # Kind(StructuralFailure)
    /\ DecoderFailure => Kind(outcome.error) = Kind(StructuralFailure)

\* C20 as amended: a JSON-syntax failure is an EcbParseError with code
\* ECB_PARSE_ERROR, the message "Failed to parse ECB JSON response." and the
\* error of JSON.parse as cause; a failure of the decoder is either an
\* EcbParseError with the same code, no cause and another message, or a
\* TypeError.  The two are the same class and code and differ by message and
\* cause only.
C20_SameKindOtherMessage ==
    /\ SyntaxFailure =>
          /\ Kind(Settled.error) = <<"EcbParseError", "ECB_PARSE_ERROR">>
          /\ Kind(Settled.error) = Kind(StructuralFailure)
          /\ Settled.error.message = <<"Failed to parse ECB JSON response.">>
          /\ Settled.error.cause # Undefined
          /\ Settled.error.cause.name = "SyntaxError"
    /\ DecoderFailure =>
          \/ /\ Kind(outcome.error) = <<"EcbParseError", "ECB_PARSE_ERROR">>
             /\ outcome.error.cause = Undefined
             /\ outcome.error.message # <<"Failed to parse ECB JSON response.">>
          \/ outcome.error = TypeError

\* getObservations has failed on a text that is no JSON with an
\* EcbParseError, the class and code of the decoder's failures.
C20_Witness ==
    /\ request.op = "getObservations"
    /\ cpc = "settled"
    /\ fetched = Return(NotJsonText)
    /\ result.kind = "throw"
    /\ Kind(result.error) = Kind(StructuralFailure)
    /\ result.error.cause.name = "SyntaxError"

----------------------------------------------------------------------------
(* parseSdmxJson.                                                          *)

\* C21: parseSdmxJson raises EcbParseError, with the error of JSON.parse as
\* cause, for every text that is no JSON and for no text that is JSON; for
\* the text JSON.stringify writes for a document it returns a value equal to
\* the document.
C21_ParseRoundTrip ==
    (pc = "done" /\ cpc = "decode" /\ request = NoRequest) =>
        IF fetched.value = JsonText(data)
        THEN outcome = Return(data)
        ELSE /\ outcome.kind = "throw"
             /\ outcome.error.name = "EcbParseError"
             /\ outcome.error.code = "ECB_PARSE_ERROR"
             /\ outcome.error.cause = [name |-> "SyntaxError"]

\* The text of a document with data sets and a structure has been parsed
\* back to the document.
C21_Witness ==
    /\ pc = "done"
    /\ request = NoRequest
    /\ fetched.value = JsonText(data)
    /\ outcome = Return(data)
    /\ data # Null
    /\ HasDataSets(data)
    /\ HasDimensionLists(data)
    /\ Len(fetched.value.text) > 60

----------------------------------------------------------------------------
(* Calls of parseJsonResponse one after the other.                         *)

\* The observations of a returned list, as a set.
Observed(o) == { o.value[i] : i \in 1..Len(o.value) }

\* Two outcomes of the decoder agree: the same failure, or lists with the
\* same observations.
SameOutcome(a, b) ==
    IF a.kind = "return" /\ b.kind = "return" THEN Observed(a) = Observed(b)
    ELSE a = b

----------------------------------------------------------------------------
(* The result of convert.                                                  *)

\* convert has returned a conversion.
Converted ==
    /\ request.op = "convert"
    /\ cpc = "settled"
    /\ result.kind = "return"
    /\ result.value # Null

\* a is the product of amount (hundredths) and rate (ten-thousandths)
\* rounded to the nearest hundredth, a half rounded up.
NearestHundredth(a, amount, rate) ==
    /\ 10000 * a - 5000 <= amount * rate
    /\ amount * rate < 10000 * a + 5000

\* C23: a conversion names the requested currency, has the date and the rate
\* of the first entry of the rates map its getRate returned, and its amount
\* is the amount given times that rate, rounded to two decimals.
C23_ConversionResult ==
    Converted =>
        /\ rateOutcome.kind = "return"
        /\ Len(rateOutcome.value.rates) > 0
        /\ result.value.currency = request.query.currencies[1]
        /\ result.value.currency = rateOutcome.value.currency
        /\ result.value.date = rateOutcome.value.rates[1][1]
        /\ result.value.rate = rateOutcome.value.rates[1][2]
        /\ NearestHundredth(result.value.amount, request.amount, result.value.rate.v)

\* 33.33 at a rate of 0.8442 is 28.14: the product 28.137186 is rounded up.
C23_Witness ==
    /\ Converted
    /\ request.amount = 3333
    /\ result.value.rate = Num(8442)
    /\ result.value.amount = 2814

----------------------------------------------------------------------------
(* The observations of a resolved series.                                  *)

\* The index an observation key stands for: the number its digits write
\* (the empty key is index 0, as Number("") is 0), or -1 when it is no number.
ObservationIndex(key) == IF AllDigits(key) THEN DecimalValue(key) ELSE -1

\* The key indexes an identifier of the time vocabulary.
IndexesDate(d, key) ==
    ObservationIndex(key) >= 0 /\ IndexesId(TimeVocab(d), ObservationIndex(key))

\* The series passes the two lookups and its tuples are lists.
ResolvedSeries(d, entry) ==
    /\ CanonicalKey(entry[1], Len(SeriesDims(d)))
    /\ IndexesId(CurrencyVocab(d), KeyIndex(entry[1], CurrencyPos(d)))
    /\ IndexesId(DenomVocab(d), KeyIndex(entry[1], DenomPos(d)))
    /\ entry[2].k = "object"
    /\ entry[2].observations.k = "object"
    /\ \A o \in 1..Len(entry[2].observations.entries) :
          IsList(entry[2].observations.entries[o][2])

\* Every data set of the document has series and all of them are resolved.
AllResolved(d) ==
    /\ HasDataSets(d)
    /\ StructureComplete(d)
    /\ \A i \in 1..Len(d.dataSets.v) :
          /\ d.dataSets.v[i].k = "object"
          /\ d.dataSets.v[i].series.k = "object"
          /\ \A j \in 1..Len(d.dataSets.v[i].series.entries) :
                ResolvedSeries(d, d.dataSets.v[i].series.entries[j])

\* What a resolved series emits: one observation for each of its entries
\* whose key indexes a date and whose tuple starts with a rate, in order.
Emitted(d, entry) ==
    LET obs == entry[2].observations.entries
    IN  Flatten([o \in 1..Len(obs) |->
                    IF IndexesDate(d, obs[o][1]) /\ HasRate(obs[o][2])
                    THEN << [currency |->
                                CurrencyVocab(d)[KeyIndex(entry[1], CurrencyPos(d)) + 1].id,
                             baseCurrency |->
                                DenomVocab(d)[KeyIndex(entry[1], DenomPos(d)) + 1].id,
                             date |-> TimeVocab(d)[ObservationIndex(obs[o][1]) + 1].id,
                             rate |-> obs[o][2].v[1]] >>
                    ELSE <<>>])

\* C24: in a series that passed the currency and base-currency lookups an
\* observation is left out, alone, when its key indexes no identifier of the
\* time vocabulary or its tuple starts with null or with nothing; every
\* other observation of the series is returned, a rate of 0 included.
C24_ObservationSkippedAlone ==
    (Done /\ AllResolved(data)) =>
        outcome =
            Return(Flatten([i \in 1..Len(data.dataSets.v) |->
                LET entries == data.dataSets.v[i].series.entries
                IN  Flatten([j \in 1..Len(entries) |-> Emitted(data, entries[j])])]))

\* A series with a rate of 0 under a key that indexes a date and a second
\* observation under a key that indexes none: only the first is returned.
C24_Witness ==
    /\ Done
    /\ AllResolved(data)
    /\ Len(data.dataSets.v[1].series.entries) = 1
    /\ LET obs == data.dataSets.v[1].series.entries[1][2].observations.entries
       IN  /\ Len(obs) = 2
           /\ obs[1][2] = Arr(<<Num(0)>>)
           /\ IndexesDate(data, obs[1][1])
           /\ ~IndexesDate(data, obs[2][1])
           /\ HasRate(obs[2][2])
    /\ outcome.kind = "return"
    /\ Len(outcome.value) = 1
    /\ outcome.value[1].rate = Num(0)

----------------------------------------------------------------------------
(* The two structural failures of parseJsonResponse.                       *)

\* structure, or its dimensions, is absent.
NoDimensions(d) ==
    IF IsNullish(d.structure) THEN TRUE ELSE IsNullish(d.structure.dimensions)

\* The three dimensions are resolved and one of them has no vocabulary.
VocabularyMissing(d) ==
    /\ HasDimensionLists(d)
    /\ Names(SeriesDims(d), "CURRENCY")
    /\ Names(SeriesDims(d), "CURRENCY_DENOM")
    /\ Names(ObsDims(d), "TIME_PERIOD")
    /\ \/ IsNullish(SeriesDims(d)[CurrencyPos(d)].values)
       \/ IsNullish(SeriesDims(d)[DenomPos(d)].values)
       \/ IsNullish(ObsDims(d)[FirstNamed(ObsDims(d), "TIME_PERIOD")].values)

\* C25: with data sets present, a document without structure or without
\* structure.dimensions fails with the EcbParseError "missing
\* structure.dimensions", and a document in which one of CURRENCY,
\* CURRENCY_DENOM and TIME_PERIOD has no values fails with the EcbParseError
\* "missing dimension values"; no observation is returned in either case.
C25_StructuralFailures ==
    (Done /\ HasDataSets(data)) =>
        /\ NoDimensions(data) =>
              outcome = Throw([name |-> "EcbParseError", code |-> "ECB_PARSE_ERROR",
                               message |-> <<"SDMX-JSON response missing structure.dimensions.">>,
                               cause |-> Undefined])
        /\ (~NoDimensions(data) /\ VocabularyMissing(data)) =>
              outcome = Throw([name |-> "EcbParseError", code |-> "ECB_PARSE_ERROR",
                               message |-> <<"SDMX-JSON response missing dimension values.">>,
                               cause |-> Undefined])

\* A data set with two series under a structure whose CURRENCY_DENOM has no
\* values, while CURRENCY and TIME_PERIOD have theirs: the failure is raised.
C25_Witness ==
    /\ Done
    /\ HasDataSets(data)
    /\ data.dataSets.v[1].k = "object"
    /\ data.dataSets.v[1].series.k = "object"
    /\ Len(data.dataSets.v[1].series.entries) = 2
    /\ ~NoDimensions(data)
    /\ VocabularyMissing(data)
    /\ IsList(SeriesDims(data)[CurrencyPos(data)].values)
    /\ IsList(ObsDims(data)[FirstNamed(ObsDims(data), "TIME_PERIOD")].values)
    /\ outcome.kind = "throw"
    /\ outcome.error.message = <<"SDMX-JSON response missing dimension values.">>

----------------------------------------------------------------------------
(* Several data sets.                                                      *)

\* The document with its i-th data set alone.
OnlyDataSet(d, i) == [d EXCEPT !.dataSets = [k |-> "array", v |-> <<d.dataSets.v[i]>>]]

\* Every data set is an object whose series mapping is absent or holds
\* resolved series only.
DataSetsTyped(d) ==
    /\ HasDataSets(d)
    /\ StructureComplete(d)
    /\ \A i \in 1..Len(d.dataSets.v) :
          /\ d.dataSets.v[i].k = "object"
          /\ \/ IsNullish(d.dataSets.v[i].series)
             \/ /\ d.dataSets.v[i].series.k = "object"
                /\ \A j \in 1..Len(d.dataSets.v[i].series.entries) :
                      ResolvedSeries(d, d.dataSets.v[i].series.entries[j])

\* C26: the observations of a document with several data sets are those of
\* its data sets, each decoded alone, one list after the other in the order
\* of dataSets; a data set without series adds nothing and the data sets
\* after it are decoded all the same.
C26_DataSetsConcatenated ==
    (Done /\ DataSetsTyped(data)) =>
        outcome =
            Return(Flatten([i \in 1..Len(data.dataSets.v) |->
                IF IsNullish(data.dataSets.v[i].series) THEN <<>>
                ELSE parseJsonResponse(OnlyDataSet(data, i)).value]))

\* A data set without series before one with a series: the observations of
\* the second are returned.
C26_Witness ==
    /\ Done
    /\ DataSetsTyped(data)
    /\ Len(data.dataSets.v) >= 2
    /\ IsNullish(data.dataSets.v[1].series)
    /\ ~IsNullish(data.dataSets.v[2].series)
    /\ outcome.kind = "return"
    /\ Len(outcome.value) = 2

----------------------------------------------------------------------------
(* The errors a caller of the client sees.                                 *)

\* The classes that extend EcbError.
EcbErrorNames ==
    {"EcbValidationError", "EcbApiError", "EcbNetworkError", "EcbParseError",
     "EcbNoDataError"}

\* C27: every rejection of a client operation is one of the EcbError
\* classes, whatever the transport delivered; no TypeError reaches the
\* caller.
C27_OnlyEcbErrors ==
    (cpc = "settled" /\ result.kind = "throw") => result.error.name \in EcbErrorNames

----------------------------------------------------------------------------
(* The timeout of get.                                                     *)

\* get has rejected with the error that reports a timeout.
TimedOutReported ==
    /\ fpc = "settled"
    /\ Rejected("EcbNetworkError")
    /\ getOutcome.error.message[1] = "Request timed out after "

\* C28: get reports "Request timed out after ...ms" only when its own
\* timeout has fired; an abort by the caller's signal before that is not
\* reported as a timeout.
C28_TimeoutOnlyWhenFired ==
    TimedOutReported => timer = "fired"

----------------------------------------------------------------------------
(* Results are never empty.                                                *)

\* C29: a result of getRate, getRateHistory or getRates has at least one
\* entry in its rates map and the base currency of the first decoded
\* observation as its base, which is a string, so that neither fallback is
\* taken; a decoded list without observations never becomes a result, and
\* convert, given a result, finds a first entry and returns a conversion.
C29_ResultsNotEmpty ==
    /\ ShapedResult =>
          /\ Len(Settled.value.rates) >= 1
          /\ outcome.kind = "return"
          /\ Len(outcome.value) >= 1
          /\ ~IsNullish(outcome.value[1].baseCurrency)
          /\ Settled.value.base = outcome.value[1].baseCurrency
    /\ (HasSettled /\ pc = "done" /\ outcome = Return(<<>>)) =>
          /\ Settled.kind = "throw"
          /\ Settled.error.name = "EcbNoDataError"
    /\ (request.op = "convert" /\ cpc = "settled" /\ rateOutcome.kind = "return") =>
          /\ result.kind = "return"
          /\ result.value # Null
          /\ result.value.date = rateOutcome.value.rates[1][1]

\* getRates on the response whose first currency is __proto__: the record
\* of the second date is empty, the rates map has both dates.
C29_Witness ==
    /\ request.op = "getRates"
    /\ cpc = "settled"
    /\ result.kind = "return"
    /\ Len(result.value.rates) = 2
    /\ result.value.rates[2][2] = <<>>
    /\ result.value.base = outcome.value[1].baseCurrency

----------------------------------------------------------------------------
(* The timeouts of calls that have settled.                                *)

\* No call of get that has settled has a timeout pending.
NoTimerLeft ==
    /\ fpc = "settled" => timer \in {"cleared", "fired"}
    /\ (overlapped # <<>> /\ overlapped[1] = "settled") =>
          overlapped[2] \in {"cleared", "fired"}

\* C30: when get has settled, with a text, an EcbApiError or an
\* EcbNetworkError, its timeout is no longer pending, and as long as the call
\* stays settled its timeout does not fire and its signal does not change;
\* this holds for calls one after the other and for a call made while the
\* one before is still under way.
C30_TimerCleared ==
    /\ []NoTimerLeft
    /\ [][/\ (fpc = "settled" /\ fpc' = "settled") => (timer' = timer /\ signal' = signal)
          /\ (overlapped # <<>> /\ overlapped[1] = "settled" /\ overlapped' # <<>>
                 /\ overlapped'[1] = "settled") => overlapped' = overlapped]_vars

\* Two calls of get that overlapped have both settled: the first returned
\* before its timeout was due, the second after its timeout had fired.
C30_Witness ==
    /\ gets = 2
    /\ overlapped = <<"settled", "cleared">>
    /\ fpc = "settled"
    /\ timer = "fired"
    /\ Rejected("EcbNetworkError")

====
